---- MODULE Spec2Model ----
(***************************************************************************)
(* A model of blest-go: the batch request handler (handleRequest), the    *)
(* per-item route reducer (routeReducer) with its timeout timer, the      *)
(* route-name validator, the context deep copy, and the registration      *)
(* calls of Router (Use, Route, Describe, Merge, Namespace), the result   *)
(* projection (filterObject) and the batching HttpClient.  Spec is one    *)
(* call of Handle on a router whose routes are registered; RouterSpec is  *)
(* a sequence of registration calls on two routers; TrySpec is a single   *)
(* Route or Describe call; ValidateSpec and FilterSpec apply validateRoute *)
(* and filterObject to generated arguments; ClientSpec is a client with   *)
(* concurrent callers of Request; BatchSpec is the runs of it in which    *)
(* all calls are enqueued before a flush timer fires, StaggerSpec the     *)
(* runs in which a call is made while the earlier call waits for its      *)
(* reply, and FlushSpec is StaggerSpec on a client whose MaxBatchSize     *)
(* may be 1; CallSpec is a single call of Request with every kind of      *)
(* arguments; ServerSpec applies the handler function of NewHttpServer    *)
(* to generated results.                                                   *)
(*                                                                         *)
(* Strings that the code inspects character by character (ids, route      *)
(* names) are sequences of one-character strings; messages are TLA+       *)
(* strings.  Go maps and slices are objects of a heap addressed by        *)
(* naturals, so that sharing between a map and its copy is visible.       *)
(***************************************************************************)
EXTENDS Integers, Sequences, FiniteSets, TLC

\* Largest number of items in a request batch.
MaxBatch == 2

(***************************************************************************)
(* Values of type interface{}                                              *)
(***************************************************************************)
Nil == [t |-> "nil", s |-> <<>>, n |-> 0]
Str(cs) == [t |-> "str", s |-> cs, n |-> 0]
Num(x) == [t |-> "num", s |-> <<>>, n |-> x]
\* a map[string]interface{} that no step of the model writes to (a request
\* body, a request's headers, a controller's result), named by a tag
Map(tag) == [t |-> "map", s |-> <<>>, n |-> tag]
\* a reference to the heap object at address a (a map or a slice)
Ref(a) == [t |-> "ref", s |-> <<>>, n |-> a]
\* a []interface{} of a request item, named by a tag
Slice(tag) == [t |-> "slice", s |-> <<>>, n |-> tag]
Bool(b) == [t |-> "bool", s |-> <<>>, n |-> IF b THEN 1 ELSE 0]
\* the nil map[string]interface{} held in an interface{}
NilMap == [t |-> "nilmap", s |-> <<>>, n |-> 0]
\* a Go int (Num is a float64 with an integer value) and the float64 x + 0.5
GoInt(x) == [t |-> "int", s |-> <<>>, n |-> x]
Frac(x) == [t |-> "frac", s |-> <<>>, n |-> x]

EmptyFields == [key \in {} |-> Nil]
MapObj(fields) == [kind |-> "map", fields |-> fields, elems |-> <<>>]
ListObj(elems) == [kind |-> "list", fields |-> EmptyFields, elems |-> elems]

(***************************************************************************)
(* validateRoute                                                           *)
(***************************************************************************)
Letters == {"a", "b", "c", "e", "f", "i", "k", "l", "o", "r", "s", "t", "w", "z"}
Digits == {"0", "1"}
RouteChars == Letters \cup Digits \cup {"_", "-", "/"}

isLetter(char) == char \in Letters

isLetterOrNumber(char) == isLetter(char) \/ char \in Digits

\* ^[a-zA-Z][a-zA-Z0-9_\-/]*[a-zA-Z0-9]$
routeRegex(route) ==
    /\ Len(route) >= 2
    /\ isLetter(route[1])
    /\ \A i \in 2..(Len(route) - 1) : route[i] \in RouteChars
    /\ isLetterOrNumber(route[Len(route)])

\* ^_[a-zA-Z][a-zA-Z0-9_\-/]*[a-zA-Z0-9]$
systemRouteRegex(route) ==
    /\ Len(route) >= 3
    /\ route[1] = "_"
    /\ isLetter(route[2])
    /\ \A i \in 3..(Len(route) - 1) : route[i] \in RouteChars
    /\ isLetterOrNumber(route[Len(route)])

\* subRouteError changed to accept every segment
subRouteErrorNone(subRoute) == ""

\* validateRoute's checks of one segment: the diagnostic, or "" when it passes
subRouteError(subRoute) ==
    IF Len(subRoute) < 2 THEN "Sub-routes should be at least two characters long"
    ELSE IF ~isLetter(subRoute[1]) THEN "Sub-routes should start with a letter"
    ELSE IF ~isLetterOrNumber(subRoute[Len(subRoute)])
         THEN "Sub-routes should end with a letter or a number"
    ELSE ""

\* strings.Split(route, "/")
RECURSIVE SplitSlash(_)
SplitSlash(route) ==
    IF \A i \in 1..Len(route) : route[i] # "/"
    THEN <<route>>
    ELSE LET p == CHOOSE i \in 1..Len(route) :
                      route[i] = "/" /\ \A j \in 1..(i - 1) : route[j] # "/"
         IN <<SubSeq(route, 1, p - 1)>> \o SplitSlash(SubSeq(route, p + 1, Len(route)))

validateRoute(route, system) ==
    IF route = <<>> THEN "Route is required"
    ELSE IF system /\ ~systemRouteRegex(route) THEN
        IF Len(route) < 3 THEN "System route should be at least three characters long"
        ELSE IF route[1] # "_" THEN "System route should start with an underscore"
        ELSE IF ~isLetterOrNumber(route[Len(route)])
             THEN "System route should end with a letter or a number"
        ELSE "System route should contain only letters, numbers, dashes, underscores, and forward slashes"
    ELSE IF ~system /\ ~routeRegex(route) THEN
        IF Len(route) < 2 THEN "Route should be at least two characters long"
        ELSE IF ~isLetter(route[1]) THEN "Route should start with a letter"
        ELSE IF ~isLetterOrNumber(route[Len(route)])
             THEN "Route should end with a letter or a number"
        ELSE "Route should contain only letters, numbers, dashes, underscores, and forward slashes"
    ELSE IF \E i \in 1..Len(route) : route[i] = "/" THEN
        LET subRoutes == SplitSlash(route)
            bad == {i \in 1..Len(subRoutes) : subRouteError(subRoutes[i]) # ""}
        IN IF bad = {} THEN ""
           ELSE subRouteError(subRoutes[CHOOSE i \in bad : \A j \in bad : i <= j])
    ELSE ""

(***************************************************************************)
(* Errors                                                                  *)
(***************************************************************************)
\* Go error values: nil, errors.New(message), *BlestError
NoErr == [kind |-> "nil", Message |-> "", StatusCode |-> 0, Code |-> ""]
PlainErr(message) == [kind |-> "plain", Message |-> message, StatusCode |-> 0, Code |-> ""]

\* arguments of NewBlestError after the message
IntArg(i) == [t |-> "int", i |-> i, str |-> ""]
StrArg(str) == [t |-> "string", i |-> 0, str |-> str]

NewBlestError(message, args) ==
    LET status == IF Len(args) > 1
                  THEN IF args[1].t = "int" /\ args[1].i > 0 THEN args[1].i ELSE 500
                  ELSE 0
        code == IF Len(args) > 2 /\ args[2].t = "string" /\ args[2].str # ""
                THEN args[2].str ELSE ""
    IN [kind |-> "blest", Message |-> message, StatusCode |-> status, Code |-> code]

\* the error element of a result tuple: nil or {"message", "statusCode"}
NilError == [nil |-> TRUE, message |-> "", statusCode |-> 0]
ErrorMap(message, statusCode) == [nil |-> FALSE, message |-> message, statusCode |-> statusCode]

\* a result tuple [id, route, result, error]
Tuple(id, route, res, error) == [id |-> id, route |-> route, result |-> res, error |-> error]

\* the error of a batch: nil or {"code", "message"}
NilBatchError == [nil |-> TRUE, code |-> 0, message |-> ""]

\* handleError's and handleResult's return values (results, error)
handleError(code, message) ==
    [resultsNil |-> TRUE, results |-> <<>>,
     error |-> [nil |-> FALSE, code |-> code, message |-> message]]

handleResult(res) ==
    [resultsNil |-> res = <<>>, results |-> res, error |-> NilBatchError]

NotReturned == [resultsNil |-> TRUE, results |-> <<>>, error |-> NilBatchError]

(***************************************************************************)
(* The heap: deepCopy and the view of a value                              *)
(***************************************************************************)
NextAddr(h) == Cardinality(DOMAIN h) + 1

Alloc(h, obj) == [a \in DOMAIN h \cup {NextAddr(h)} |-> IF a \in DOMAIN h THEN h[a] ELSE obj]

RECURSIVE deepCopy(_, _), deepCopyMap(_, _), deepCopySlice(_, _),
          copyFields(_, _, _, _), copyElems(_, _, _, _)

\* copy[key] = deepCopy(value) for the keys still to copy; acc is the copy so far
copyFields(h, original, keys, acc) ==
    IF keys = {} THEN [h |-> h, fields |-> acc]
    ELSE LET key == CHOOSE x \in keys : TRUE
             c == deepCopy(h, original[key])
         IN copyFields(c.h, original, keys \ {key},
                       [x \in DOMAIN acc \cup {key} |-> IF x = key THEN c.v ELSE acc[x]])

\* copy[i] = deepCopy(v) for the elements from position i on
copyElems(h, slice, i, acc) ==
    IF i > Len(slice) THEN [h |-> h, elems |-> acc]
    ELSE LET c == deepCopy(h, slice[i])
         IN copyElems(c.h, slice, i + 1, Append(acc, c.v))

\* each of the three returns the heap after the copy and the copied value
deepCopyMap(h, original) ==
    LET c == copyFields(h, original, DOMAIN original, EmptyFields)
    IN [h |-> Alloc(c.h, MapObj(c.fields)), v |-> Ref(NextAddr(c.h))]

deepCopySlice(h, slice) ==
    LET c == copyElems(h, slice, 1, <<>>)
    IN [h |-> Alloc(c.h, ListObj(c.elems)), v |-> Ref(NextAddr(c.h))]

\* deepCopy changed to hand back the value it was given (no copy is made)
deepCopyNone(h, value) == [h |-> h, v |-> value]

deepCopy(h, value) ==
    IF value.t = "nilmap" THEN deepCopyMap(h, EmptyFields)
    ELSE IF value.t # "ref" THEN [h |-> h, v |-> value]
    ELSE IF h[value.n].kind = "map" THEN deepCopyMap(h, h[value.n].fields)
    ELSE deepCopySlice(h, h[value.n].elems)

\* the value as a handler reads it: every reference followed
RECURSIVE View(_, _)
View(h, value) ==
    IF value.t # "ref"
    THEN [kind |-> "scalar", val |-> value, fields |-> EmptyFields, elems |-> <<>>]
    ELSE IF h[value.n].kind = "map"
    THEN [kind |-> "map", val |-> Nil, elems |-> <<>>,
          fields |-> [key \in DOMAIN h[value.n].fields |-> View(h, h[value.n].fields[key])]]
    ELSE [kind |-> "list", val |-> Nil, fields |-> EmptyFields,
          elems |-> [i \in DOMAIN h[value.n].elems |-> View(h, h[value.n].elems[i])]]

\* m[key] = value on the map object at address a
SetKey(h, a, key, value) ==
    [h EXCEPT ![a].fields =
        [x \in DOMAIN h[a].fields \cup {key} |-> IF x = key THEN value ELSE h[a].fields[x]]]

(***************************************************************************)
(* The ambient context passed to Handle: a map with a scalar, a nested     *)
(* map, a list holding a map, and a key named like a per-item entry.       *)
(***************************************************************************)
AmbientHeap ==
    <<MapObj([key \in {"k", "m", "l", "id"} |->
                 CASE key = "k" -> Str(<<"v">>)
                   [] key = "m" -> Ref(2)
                   [] key = "l" -> Ref(3)
                   [] key = "id" -> Str(<<"z">>)]),
      MapObj([key \in {"x"} |-> Str(<<"v">>)]),
      ListObj(<<Ref(4)>>),
      MapObj([key \in {"x"} |-> Str(<<"v">>)])>>

AmbientContext == Ref(1)

(***************************************************************************)
(* Pipeline steps and the route registry                                   *)
(***************************************************************************)
\* A step is a Go function: argc = NumIn, sig = the case of routeReducer's
\* type switch it matches, ret and err = what it returns, mut = what it
\* writes into the context it receives.
Step(name, sig, argc, ret, err, mut) ==
    [name |-> name, sig |-> sig, argc |-> argc, ret |-> ret, err |-> err, mut |-> mut]

\* handlers in the style of blest_test.go
mwTop == Step("mwTop", "middleware", 2, Nil, NoErr, "top")
mwNested == Step("mwNested", "middleware", 2, Nil, NoErr, "nested")
mwList == Step("mwList", "middleware", 2, Nil, NoErr, "list")
ctrlObj == Step("ctrlObj", "controller", 2, Map(1), NoErr, "none")
ctrlStr == Step("ctrlStr", "controller", 2, Str(<<"s">>), NoErr, "none")
ctrlErr == Step("ctrlErr", "controller", 1, Nil, PlainErr("ERROR_5"), "none")
afterware == Step("afterware", "afterware", 3, Nil, NoErr, "none")
\* controllers that fail with NewBlestError(message), NewBlestError(message,
\* status) and NewBlestError(message, status, code)
ctrlBlest0 == Step("ctrlBlest0", "controller", 1, Nil, NewBlestError("Forbidden", <<>>), "none")
ctrlBlest1 ==
    Step("ctrlBlest1", "controller", 1, Nil, NewBlestError("Forbidden", <<IntArg(403)>>), "none")
ctrlBlestC ==
    Step("ctrlBlestC", "controller", 1, Nil,
         NewBlestError("Forbidden", <<IntArg(403), StrArg("FORBIDDEN")>>), "none")

\* routeNotFound changed to fail with a plain error
routeNotFoundPlain == Step("routeNotFound", "controller", 0, Nil, PlainErr("Route not found"), "none")

routeNotFound ==
    Step("routeNotFound", "controller", 0, Nil,
         NewBlestError("Not Found", <<IntArg(404), StrArg("NOT_FOUND")>>), "none")

\* a Route as Router.Route stores it for a router without introspection
Route(handler, timeout) ==
    [Handler |-> handler, Description |-> <<>>, Schema |-> Nil, Visible |-> FALSE,
     Validate |-> FALSE, Timeout |-> timeout]

rOk == <<"o", "k">>
rSlow == <<"s", "l", "o", "w">>
rFail == <<"f", "a", "i", "l">>
rStr == <<"s", "t", "r">>
rTwo == <<"t", "w", "o">>
rMissing == <<"z", "z">>
rBad == <<"a">>
rErr0 == <<"e", "0">>
rErr1 == <<"e", "1">>
rErrC == <<"e", "c">>

\* Router.Routes of the router that serves the batch
Registry ==
    [name \in {rOk, rSlow, rFail, rStr, rTwo, rErr0, rErr1, rErrC} |->
        CASE name = rOk -> Route(<<mwTop, mwNested, mwList, ctrlObj>>, 0)
          [] name = rSlow -> Route(<<mwTop, ctrlObj, afterware>>, 10)
          [] name = rFail -> Route(<<ctrlErr, ctrlObj, afterware>>, 0)
          [] name = rStr -> Route(<<ctrlStr>>, 0)
          [] name = rTwo -> Route(<<ctrlObj, ctrlObj, afterware>>, 0)
          [] name = rErr0 -> Route(<<ctrlBlest0>>, 0)
          [] name = rErr1 -> Route(<<ctrlBlest1>>, 0)
          [] name = rErrC -> Route(<<ctrlBlestC>>, 0)]

(***************************************************************************)
(* Router: NewRouter, Use, Route, Describe, Merge, Namespace               *)
(***************************************************************************)
EmptyRoutes == [name \in {} |-> Route(<<>>, 0)]

NewRouter(timeout, introspection) ==
    [Middleware |-> <<>>, Afterware |-> <<>>, Routes |-> EmptyRoutes,
     Timeout |-> timeout, Introspection |-> introspection]

\* r.Routes[route] = entry
SetRoute(r, route, entry) ==
    [r EXCEPT !.Routes = [name \in DOMAIN r.Routes \cup {route} |->
                             IF name = route THEN entry ELSE r.Routes[name]]]

\* what a registration call leaves behind: the router, the error it returned
\* and the message it panicked with
Outcome(r, e, p) == [router |-> r, err |-> e, panic |-> p]

RECURSIVE Use(_, _)
Use(r, handlers) ==
    IF handlers = <<>> THEN Outcome(r, "", "")
    ELSE LET handler == Head(handlers)
         IN IF handler.argc <= 2
            THEN Use([r EXCEPT !.Middleware = Append(@, handler)], Tail(handlers))
            ELSE IF handler.argc = 3
            THEN Use([r EXCEPT !.Afterware = Append(@, handler)], Tail(handlers))
            ELSE Outcome(r, "", "Middleware should have at most three arguments")

\* the options map of Route and the config map of Describe: each entry is
\* Nil when the key is absent
NoConfig == [nil |-> TRUE, description |-> Nil, schema |-> Nil, visible |-> Nil,
             validate |-> Nil, timeout |-> Nil]
Config(description, schema, visible, validate, timeout) ==
    [nil |-> FALSE, description |-> description, schema |-> schema, visible |-> visible,
     validate |-> validate, timeout |-> timeout]

Describe(r, route, config) ==
    IF route \notin DOMAIN r.Routes THEN Outcome(r, "Route does not exist", "")
    ELSE IF config.nil THEN Outcome(r, "Configuration should be a map", "")
    ELSE
        LET i0 == r.Routes[route]
            i1 == IF config.description.t = "str"
                  THEN [i0 EXCEPT !.Description = config.description.s] ELSE i0
            i2 == IF config.schema.t = "map" THEN [i1 EXCEPT !.Schema = config.schema] ELSE i1
            i3 == IF config.visible.t = "bool"
                  THEN [i2 EXCEPT !.Visible = (config.visible.n = 1)] ELSE i2
            i4 == IF config.validate.t = "bool"
                  THEN [i3 EXCEPT !.Validate = (config.validate.n = 1)] ELSE i3
            isFloat == config.timeout.t \in {"num", "frac"}
        IN IF isFloat /\ (config.timeout.n <= 0 \/ config.timeout.t = "frac")
           THEN Outcome(r, "Timeout should be a positive integer", "")
           ELSE Outcome(SetRoute(r, route,
                                 IF isFloat THEN [i4 EXCEPT !.Timeout = config.timeout.n]
                                 ELSE i4), "", "")

\* Router.Route changed to store the route without any of its checks
RouterRouteUnchecked(r, route, handlers, options) ==
    Outcome(SetRoute(r, route, [Handler |-> r.Middleware \o handlers, Description |-> <<>>,
                                Schema |-> Nil, Visible |-> r.Introspection,
                                Validate |-> FALSE, Timeout |-> r.Timeout]), "", "")

\* Router.Route(route, handlers..., options): options is NoConfig when the last
\* argument is a function
RouterRoute(r, route, handlers, options) ==
    IF handlers = <<>> /\ options.nil THEN Outcome(r, "", "index out of range")
    ELSE IF validateRoute(route, FALSE) # "" THEN Outcome(r, "", validateRoute(route, FALSE))
    ELSE IF route \in DOMAIN r.Routes THEN Outcome(r, "", "Route already exists")
    ELSE IF handlers = <<>> THEN Outcome(r, "", "At least one handler is required")
    ELSE
        LET entry == [Handler |-> r.Middleware \o handlers, Description |-> <<>>,
                      Schema |-> Nil, Visible |-> r.Introspection, Validate |-> FALSE,
                      Timeout |-> r.Timeout]
            stored == SetRoute(r, route, entry)
        IN IF options.nil THEN Outcome(stored, "", "")
           ELSE Outcome(Describe(stored, route, options).router, "", "")

\* the timeout of an imported route, changed to take the importing router's
\* default whatever the route's own timeout
importedTimeoutParent(r, entry) == r.Timeout

\* the timeout Merge and Namespace give a route they import
importedTimeout(r, entry) == IF entry.Timeout > 0 THEN entry.Timeout ELSE r.Timeout

\* the imported Route changed to leave out the importing router's afterware
importedRouteNoAfterware(r, entry) ==
    [Handler |-> r.Middleware \o entry.Handler, Description |-> entry.Description,
     Schema |-> entry.Schema, Visible |-> entry.Visible, Validate |-> entry.Validate,
     Timeout |-> importedTimeout(r, entry)]

\* the Route that Merge and Namespace store for a route of the other router
importedRoute(r, entry) ==
    [Handler |-> r.Middleware \o entry.Handler \o r.Afterware,
     Description |-> entry.Description, Schema |-> entry.Schema,
     Visible |-> entry.Visible, Validate |-> entry.Validate,
     Timeout |-> importedTimeout(r, entry)]

\* the orders in which a range over a map can visit its keys
Orders(keys) ==
    {order \in [1..Cardinality(keys) -> keys] :
        \A i, j \in 1..Cardinality(keys) : i # j => order[i] # order[j]}

\* the Go string of a name
RECURSIVE Concat(_)
Concat(cs) == IF cs = <<>> THEN "" ELSE Head(cs) \o Concat(Tail(cs))

\* Merge's loop over newRoutes, visited in the given order; existingRoutes are
\* the names r had when Merge was called
RECURSIVE mergeLoop(_, _, _, _)
mergeLoop(r, router, existingRoutes, newRoutes) ==
    IF newRoutes = <<>> THEN Outcome(r, "", "")
    ELSE LET route == Head(newRoutes)
         IN IF route \in existingRoutes
            THEN Outcome(r, "Cannot merge duplicate routes: " \o Concat(route), "")
            ELSE mergeLoop(SetRoute(r, route, importedRoute(r, router.Routes[route])),
                           router, existingRoutes, Tail(newRoutes))

Merge(r, router, newRoutes) ==
    IF newRoutes = <<>> THEN Outcome(r, "No routes to merge", "")
    ELSE mergeLoop(r, router, DOMAIN r.Routes, newRoutes)

\* Namespace's loop: the collision test looks up route, the entry is stored
\* under nsRoute
RECURSIVE namespaceLoop(_, _, _, _, _)
namespaceLoop(r, prefix, router, existingRoutes, newRoutes) ==
    IF newRoutes = <<>> THEN Outcome(r, "", "")
    ELSE LET route == Head(newRoutes)
             nsRoute == prefix \o <<"/">> \o route
         IN IF route \in existingRoutes
            THEN Outcome(r, "Cannot merge duplicate routes: " \o Concat(nsRoute), "")
            ELSE namespaceLoop(SetRoute(r, nsRoute, importedRoute(r, router.Routes[route])),
                               prefix, router, existingRoutes, Tail(newRoutes))

Namespace(r, prefix, router, newRoutes) ==
    IF validateRoute(prefix, FALSE) # "" THEN Outcome(r, validateRoute(prefix, FALSE), "")
    ELSE IF newRoutes = <<>> THEN Outcome(r, "No routes to namespace", "")
    ELSE namespaceLoop(r, prefix, router, DOMAIN r.Routes, newRoutes)

\* a router with default timeout 10 on which two routes were registered
childWithRoutes ==
    RouterRoute(RouterRoute(NewRouter(10, FALSE), rOk, <<ctrlObj>>, NoConfig).router,
                rSlow, <<mwNested, ctrlObj>>,
                Config(Str(<<"d">>), Map(4), Bool(TRUE), Bool(TRUE), Nil)).router

\* a registration call: its name, the router it acted on, its arguments, how
\* it ended and the router as it was before the call
Call(op, on, route, handlers, options, out, pre) ==
    [op |-> op, on |-> on, route |-> route, handlers |-> handlers, options |-> options,
     err |-> out.err, panic |-> out.panic, pre |-> pre]

NoCall == Call("none", "parent", <<>>, <<>>, NoConfig, Outcome(NewRouter(0, FALSE), "", ""),
               NewRouter(0, FALSE))

(***************************************************************************)
(* filterObject                                                            *)
(***************************************************************************)
\* values of a decoded JSON object: a number, a map[string]interface{} and a
\* []interface{}
Number(x) == [kind |-> "num", fields |-> EmptyFields, elems |-> <<>>, n |-> x]
Object(fields) == [kind |-> "map", fields |-> fields, elems |-> <<>>, n |-> 0]
Array(elems) == [kind |-> "list", fields |-> EmptyFields, elems |-> elems, n |-> 0]

\* a selector is a nil slice or a slice of keys; a key is a string or the
\* slice [string, selector]
NilSelector == [nil |-> TRUE, keys |-> <<>>]
Selector(keys) == [nil |-> FALSE, keys |-> keys]
KeyString(key) == [t |-> "string", k |-> key, sub |-> NilSelector]
KeyPair(key, sub) == [t |-> "slice", k |-> key, sub |-> sub]

\* filterObject returns a map or panics
Filtered(obj) == [panic |-> "", obj |-> obj]
FilterPanic(message) == [panic |-> message, obj |-> EmptyFields]
NotAMap == "interface conversion: interface {} is not map[string]interface {}"

\* filteredObj[key] = value
PutKey(filteredObj, key, value) ==
    [name \in DOMAIN filteredObj \cup {key} |-> IF name = key THEN value ELSE filteredObj[name]]

RECURSIVE filterObject(_, _)
RECURSIVE filterNested(_, _, _, _)
RECURSIVE filterLoop(_, _, _, _)

\* the loop over the items of a nested slice, from item i on
filterNested(nested, sub, i, filteredArr) ==
    IF i > Len(nested) THEN [panic |-> "", arr |-> filteredArr]
    ELSE IF nested[i].kind # "map" THEN [panic |-> NotAMap, arr |-> <<>>]
    ELSE LET filteredNestedObj == filterObject(nested[i].fields, sub)
         IN IF filteredNestedObj.panic # "" THEN [panic |-> filteredNestedObj.panic, arr |-> <<>>]
            ELSE filterNested(nested, sub, i + 1,
                              IF Cardinality(DOMAIN filteredNestedObj.obj) > 0
                              THEN Append(filteredArr, Object(filteredNestedObj.obj))
                              ELSE filteredArr)

\* the loop over the keys of the selector, from key i on
filterLoop(obj, arr, i, filteredObj) ==
    IF i > Len(arr) THEN Filtered(filteredObj)
    ELSE LET key == arr[i]
         IN IF key.k \notin DOMAIN obj THEN filterLoop(obj, arr, i + 1, filteredObj)
            ELSE IF key.t = "string"
            THEN filterLoop(obj, arr, i + 1, PutKey(filteredObj, key.k, obj[key.k]))
            ELSE LET nestedObj == obj[key.k]
                 IN CASE nestedObj.kind = "list" ->
                          LET items == filterNested(nestedObj.elems, key.sub, 1, <<>>)
                          IN IF items.panic # "" THEN FilterPanic(items.panic)
                             ELSE filterLoop(obj, arr, i + 1,
                                             IF Len(items.arr) > 0
                                             THEN PutKey(filteredObj, key.k, Array(items.arr))
                                             ELSE filteredObj)
                      [] nestedObj.kind = "map" ->
                          LET filteredNestedObj == filterObject(nestedObj.fields, key.sub)
                          IN IF filteredNestedObj.panic # "" THEN filteredNestedObj
                             ELSE filterLoop(obj, arr, i + 1,
                                             IF Cardinality(DOMAIN filteredNestedObj.obj) > 0
                                             THEN PutKey(filteredObj, key.k,
                                                         Object(filteredNestedObj.obj))
                                             ELSE filteredObj)
                      [] OTHER -> filterLoop(obj, arr, i + 1, filteredObj)

filterObject(obj, arr) ==
    IF arr.nil THEN Filtered(obj) ELSE filterLoop(obj, arr.keys, 1, EmptyFields)

\* the entries of the maps Map(tag) and the keys of the slices Slice(tag) of
\* a batch: a controller's result {"a": 1, "b": 1}, its projection {"a": 1},
\* and the selector ["a"]
MapContents(tag) ==
    CASE tag = 1 -> [name \in {"a", "b"} |-> Number(1)]
      [] tag = 4 -> [name \in {"a"} |-> Number(1)]
      [] OTHER -> [name \in {"x"} |-> Number(1)]

MapTags == 1..4

SliceContents(tag) == Selector(<<KeyString("a")>>)

\* the value of the map with these entries
MapOf(fields) == Map(CHOOSE tag \in MapTags : MapContents(tag) = fields)

(***************************************************************************)
(* Request batches                                                         *)
(***************************************************************************)
idA == Str(<<"a">>)
idB == Str(<<"b">>)
idC == Str(<<"c">>)

ItemPool ==
    { <<idA, Str(rOk)>>, <<idB, Str(rOk), Map(2), Map(3)>>,
      <<idA, Str(rOk), Map(2), Slice(1)>>,
      <<idA, Str(rSlow)>>, <<idB, Str(rFail)>>, <<idA, Str(rStr)>>,
      <<idB, Str(rTwo)>>, <<idB, Str(rMissing)>>, <<idA, Str(rBad)>>,
      <<idC, Str(rSlow)>>,
      <<idC, Str(rErr0)>>, <<idC, Str(rErr1)>>, <<idC, Str(rErrC)>>,
      <<>>, <<idA>>, <<Num(1), Str(rOk)>>, <<Str(<<>>), Str(rOk)>>,
      <<idB, Num(1)>>, <<idB, Str(<<>>)>> }

Batches == UNION {[1..len -> ItemPool] : len \in 0..MaxBatch}

(***************************************************************************)
(* HttpClient: the client, its callers and their channels                  *)
(***************************************************************************)
\* Largest number of goroutines that call Request on the client.
MaxCallers == 2
\* Largest number of runs of Process.  The code has no such limit: a timer
\* fires again whenever Reset has re-armed it.  The runs of BatchSpec,
\* StaggerSpec, FlushSpec and CallSpec end before they reach it
\* (RunsBelowMaxFlushes).
MaxFlushes == 5

\* NewHttpClient's maxBatchSize
DefaultMaxBatchSize == 100

\* the goroutines that call Request; caller c gets the id c from uuid.New()
Callers == 1..MaxCallers

\* NewHttpClient: an empty queue, no timer (0 is the nil *time.Timer) and an
\* emitter whose events map is nil; events holds the ids that have a channel
NewHttpClient ==
    [MaxBatchSize |-> DefaultMaxBatchSize, Queue |-> <<>>, Timeout |-> 0,
     eventsNil |-> TRUE, events |-> {}]

\* what Request returned: nothing yet, (result, error) or a panic
NoOutcome == [state |-> "none", result |-> Nil, err |-> ""]
RequestReturned(res, message) == [state |-> "returned", result |-> res, err |-> message]
RequestPanicked(message) == [state |-> "panicked", result |-> Nil, err |-> message]

\* a goroutine that has not called Request
IdleCaller ==
    [pc |-> "idle", route |-> <<>>, args |-> <<>>, sawNil |-> FALSE, snap |-> <<>>,
     made |-> 0, out |-> NoOutcome]

\* chOnce, a channel with a buffer of one value, and the goroutine that once
\* starts for it: where it is ("recv", "send", "off", "close", "done") and the
\* value it has received
NoChan == [state |-> "none", buf |-> <<>>, once |-> "none", val |-> <<>>]
OpenChan == [state |-> "open", buf |-> <<>>, once |-> "recv", val |-> <<>>]

\* a run of Process at its first statement
NewFlush ==
    [pc |-> "take", newQueue |-> <<>>, high |-> 0, rest |-> <<>>, data |-> <<>>, next |-> 1]

(***************************************************************************)
(* State                                                                   *)
(***************************************************************************)
VARIABLES
    requests,    \* the batch passed to Handle
    routes,      \* Router.Routes
    heap,        \* the maps and slices of the contexts
    hpc,         \* handleRequest: "start" (top of the loop), "collect" (ranging
                 \* over resultChan), "done" (returned)
    idx,         \* position of handleRequest's loop in the batch
    uniqueIds,   \* handleRequest's uniqueIds
    results,     \* handleRequest's results
    ret,         \* what Handle returned
    panic,       \* the runtime panic that ended the process, or "none"
    rpc,         \* the reducer goroutine of item idx: "idle", "arm", "copy", "loop",
                 \* "call", "stop", "send"
    k,           \* its position in the pipeline
    result,      \* its result
    err,         \* its err
    toSend,      \* the tuples it has still to send on resultChan
    timer,       \* per item, the timer: "none", "armed", "running", "done", "stopped"
    timedOut,    \* per item, routeReducer's timedOut
    chanClosed,  \* per item, whether resultChan is closed
    emitted,     \* per item, the tuples received from resultChan
    ran,         \* per item, the names of the steps that were invoked
    seen,        \* per item, the errors its afterware steps were invoked with
    ctxAddr,     \* per item, the safeContext its steps receive
    firedIn,     \* per item, where the goroutine was when the timer fired: "" (not
                 \* fired), "loop" (steps still to run), "after" (loop finished)
    parent,      \* the router that registrations, Merge and Namespace act on
    child,       \* the router that is merged or namespaced into parent
    last,        \* the last registration call and how it ended
    nops,        \* number of registration calls made so far
    fnArg,       \* the arguments of the function under test
    fnRes,       \* what it returned, or NotCalled
    client,      \* the HttpClient: Queue, Timeout and the emitter's events
    callers,     \* per caller, its position in Request, its locals and outcome
    chOnce,      \* per caller, the channel chOnce of eventEmitter.once
    chReply,     \* per caller, the values in the channel ch of Request
    sends,       \* per caller, the number of goroutines of emit that have still
                 \* to send on its chOnce
    timers,      \* the timers made by time.AfterFunc: "armed", "fired", "stopped"
    flushes,     \* the runs of Process: position, newQueue, high and data
    posts,       \* the bodies of the POST requests made so far
    fatal        \* the panic or runtime error that ended the process, or ""

vars == <<requests, routes, heap, hpc, idx, uniqueIds, results, ret, panic, rpc, k,
          result, err, toSend, timer, timedOut, chanClosed, emitted, ran, seen, ctxAddr,
          firedIn, parent, child, last, nops, fnArg, fnRes, client, callers, chOnce,
          chReply, sends, timers, flushes, posts, fatal>>

hvars == <<hpc, idx, uniqueIds, ret>>
rvars == <<rpc, k, result, err, toSend>>
rtvars == <<parent, child, last, nops>>
pvars == <<fnArg, fnRes>>
cvars == <<client, callers, chOnce, chReply, sends, timers, flushes, posts, fatal>>
xvars == <<pvars, cvars>>
hsvars == <<requests, routes, heap, hpc, idx, uniqueIds, results, ret, panic, rpc, k,
            result, err, toSend, timer, timedOut, chanClosed, emitted, ran, seen, ctxAddr,
            firedIn>>

Items == 1..Len(requests)

\* the state of a router that serves no batch yet
HandleIdle ==
    /\ routes = Registry
    /\ heap = AmbientHeap
    /\ hpc = "start"
    /\ idx = 1
    /\ uniqueIds = {}
    /\ results = <<>>
    /\ ret = NotReturned
    /\ panic = "none"
    /\ rpc = "idle"
    /\ k = 1
    /\ result = Nil
    /\ err = NoErr
    /\ toSend = <<>>
    /\ timer = [i \in Items |-> "none"]
    /\ timedOut = [i \in Items |-> FALSE]
    /\ chanClosed = [i \in Items |-> FALSE]
    /\ emitted = [i \in Items |-> <<>>]
    /\ ran = [i \in Items |-> <<>>]
    /\ seen = [i \in Items |-> <<>>]
    /\ ctxAddr = [i \in Items |-> Nil]
    /\ firedIn = [i \in Items |-> ""]

\* no registration call is made
RouterIdle ==
    /\ parent = NewRouter(0, FALSE)
    /\ child = NewRouter(0, FALSE)
    /\ last = NoCall
    /\ nops = 0

NotCalled == [called |-> FALSE, val |-> <<>>]
ReturnedValue(val) == [called |-> TRUE, val |-> val]

\* no function is under test
PureIdle == fnArg = <<>> /\ fnRes = NotCalled

\* a new client that no goroutine has called yet
ClientIdle ==
    /\ client = NewHttpClient
    /\ callers = [c \in Callers |-> IdleCaller]
    /\ chOnce = [c \in Callers |-> NoChan]
    /\ chReply = [c \in Callers |-> <<>>]
    /\ sends = [c \in Callers |-> 0]
    /\ timers = <<>>
    /\ flushes = <<>>
    /\ posts = <<>>
    /\ fatal = ""

\* Handle is called on a router whose routes are registered
Init ==
    /\ requests \in Batches
    /\ HandleIdle
    /\ RouterIdle
    /\ PureIdle
    /\ ClientIdle

\* two new routers, before any registration call
RouterInit ==
    /\ requests = <<>>
    /\ HandleIdle
    /\ parent \in {NewRouter(0, FALSE), NewRouter(1000, FALSE)}
    /\ child \in {NewRouter(0, FALSE), NewRouter(10, FALSE), childWithRoutes}
    /\ last = NoCall
    /\ nops = 0
    /\ PureIdle
    /\ ClientIdle

(***************************************************************************)
(* handleRequest                                                           *)
(***************************************************************************)
\* itemCheck changed to leave out the uniqueIds test
itemCheckNoUnique(request, ids) ==
    IF Len(request) < 1 THEN "panic"
    ELSE IF request[1].t # "str" \/ request[1].s = <<>> THEN "Request item should have an ID"
    ELSE IF Len(request) < 2 THEN "panic"
    ELSE IF request[2].t # "str" \/ request[2].s = <<>> THEN "Request item should have a route"
    ELSE "ok"

\* The checks of one loop iteration: "ok", the message of the batch error, or
\* "panic" when the item is indexed past its end.
itemCheck(request, ids) ==
    IF Len(request) < 1 THEN "panic"
    ELSE IF request[1].t # "str" \/ request[1].s = <<>> THEN "Request item should have an ID"
    ELSE IF Len(request) < 2 THEN "panic"
    ELSE IF request[2].t # "str" \/ request[2].s = <<>> THEN "Request item should have a route"
    ELSE IF request[1].s \in ids THEN "Request items should have unique IDs"
    ELSE "ok"

itemBody(request) == IF Len(request) > 2 /\ request[3].t = "map" THEN request[3] ELSE Nil

itemHeaders(request) == IF Len(request) > 3 /\ request[4].t = "map" THEN request[4] ELSE Nil

\* routeHandler and timeout of an item
routeHandler(rts, route) == IF route \in DOMAIN rts THEN rts[route].Handler ELSE <<routeNotFound>>

routeTimeout(rts, route) ==
    IF route \in DOMAIN rts /\ rts[route].Timeout > 0 THEN rts[route].Timeout ELSE 0

\* requestContext changed to let the entries of context win over id, route,
\* headers and time
requestContextAmbientWins(h, context, id, route, headers) ==
    LET base == IF context.t = "ref" THEN h[context.n].fields ELSE EmptyFields
    IN [key \in DOMAIN base \cup {"id", "route", "headers", "time"} |->
           IF key \in DOMAIN base THEN base[key]
           ELSE CASE key = "id" -> Str(id)
                  [] key = "route" -> Str(route)
                  [] key = "headers" -> IF headers = Nil THEN NilMap ELSE headers
                  [] OTHER -> Num(0)]

\* requestContext: the entries of context, then id, route, headers and time;
\* headers is a map[string]interface{}, the nil one when the item has none
requestContext(h, context, id, route, headers) ==
    LET base == IF context.t = "ref" THEN h[context.n].fields ELSE EmptyFields
    IN [key \in DOMAIN base \cup {"id", "route", "headers", "time"} |->
           CASE key = "id" -> Str(id)
             [] key = "route" -> Str(route)
             [] key = "headers" -> IF headers = Nil THEN NilMap ELSE headers
             [] key = "time" -> Num(0)
             [] OTHER -> base[key]]

CurRoute == requests[idx][2].s
CurHandler == routeHandler(routes, CurRoute)

HandleEmpty ==
    /\ panic = "none" /\ hpc = "start" /\ Len(requests) = 0
    /\ ret' = handleError(400, "Request body should be a JSON array")
    /\ hpc' = "done"
    /\ UNCHANGED <<rtvars, xvars, requests, routes, heap, idx, uniqueIds, results, panic, rvars,
                   timer, timedOut, chanClosed, emitted, ran, seen, ctxAddr, firedIn>>

\* One iteration of the loop up to the call of routeReducer, which makes
\* resultChan and starts the reducer goroutine.
HandleItem ==
    /\ panic = "none" /\ hpc = "start" /\ idx <= Len(requests)
    /\ LET request == requests[idx]
           check == itemCheck(request, uniqueIds)
       IN IF check = "panic" THEN
              /\ panic' = "index out of range"
              /\ UNCHANGED <<heap, hvars, rvars, timer, ctxAddr>>
          ELSE IF check # "ok" THEN
              /\ ret' = handleError(400, check)
              /\ hpc' = "done"
              /\ UNCHANGED <<heap, idx, uniqueIds, panic, rvars, timer, ctxAddr>>
          ELSE
              LET id == request[1].s
                  route == request[2].s
              IN /\ uniqueIds' = uniqueIds \cup {id}
                 /\ heap' = Alloc(heap, MapObj(requestContext(heap, AmbientContext, id, route,
                                                              itemHeaders(request))))
                 /\ hpc' = "collect"
                 /\ rpc' = "arm"
                 /\ k' = 1
                 /\ result' = Nil
                 /\ err' = NoErr
                 /\ UNCHANGED <<idx, ret, panic, toSend, timer, ctxAddr>>
    /\ UNCHANGED <<rtvars, xvars, requests, routes, results, timedOut, chanClosed, emitted, ran, seen, firedIn>>

\* the reducer goroutine starts: if timeout > 0 { timer = time.AfterFunc(...) }
ReducerArm ==
    /\ panic = "none" /\ rpc = "arm"
    /\ timer' = [timer EXCEPT ![idx] =
                    IF routeTimeout(routes, CurRoute) > 0 THEN "armed" ELSE "none"]
    /\ rpc' = "copy"
    /\ UNCHANGED <<rtvars, xvars, requests, routes, heap, hvars, results, panic, k, result, err,
                   toSend, timedOut, chanClosed, emitted, ran, seen, ctxAddr, firedIn>>

\* safeContext := deepCopy(context): context is the requestContext that
\* HandleItem made, the newest object of the heap
ReducerCopy ==
    /\ panic = "none" /\ rpc = "copy"
    /\ LET safe == deepCopy(heap, Ref(Cardinality(DOMAIN heap)))
       IN /\ heap' = safe.h
          /\ ctxAddr' = [ctxAddr EXCEPT ![idx] = safe.v]
    /\ rpc' = "loop"
    /\ UNCHANGED <<rtvars, xvars, requests, routes, hvars, results, panic, k, result, err,
                   toSend, timer, timedOut, chanClosed, emitted, ran, seen, firedIn>>

\* The range over resultChan ends when the channel is closed.
RangeClosed ==
    /\ panic = "none" /\ hpc = "collect" /\ chanClosed[idx]
    /\ idx' = idx + 1
    /\ hpc' = "start"
    /\ UNCHANGED <<rtvars, xvars, requests, routes, heap, uniqueIds, results, ret, panic, rvars,
                   timer, timedOut, chanClosed, emitted, ran, seen, ctxAddr, firedIn>>

Return ==
    /\ panic = "none" /\ hpc = "start" /\ Len(requests) > 0 /\ idx > Len(requests)
    /\ ret' = handleResult(results)
    /\ hpc' = "done"
    /\ UNCHANGED <<rtvars, xvars, requests, routes, heap, idx, uniqueIds, results, panic, rvars,
                   timer, timedOut, chanClosed, emitted, ran, seen, ctxAddr, firedIn>>

(***************************************************************************)
(* routeReducer                                                            *)
(***************************************************************************)
\* what a step writes into the context at address a
stepMutation(h, a, mut) ==
    CASE mut = "top" -> SetKey(SetKey(h, a, "k", Str(<<"w">>)), a, "user", Str(<<"w">>))
      [] mut = "nested" -> SetKey(h, h[a].fields["m"].n, "x", Str(<<"w">>))
      [] mut = "list" -> SetKey(h, h[h[a].fields["l"].n].elems[1].n, "x", Str(<<"w">>))
      [] OTHER -> h

\* the two guards at the top of the loop body: the step is not invoked
stepSkipped(f, tOut, e) ==
    \/ (tOut \/ e # NoErr) /\ f.argc <= 2
    \/ e = NoErr /\ f.argc > 2

\* stepEffect changed to keep the first non-nil result and ignore a second one
stepEffectKeepFirst(f, res, e) ==
    LET tempErr == IF f.sig = "controller" THEN f.err ELSE NoErr
        tempResult == IF f.sig = "controller" THEN f.ret ELSE Nil
    IN [result |-> IF tempErr = NoErr /\ res = Nil THEN tempResult ELSE res,
        err |-> IF tempErr # NoErr THEN tempErr ELSE e, break |-> FALSE]

\* the type switch and the bookkeeping after it: result, err and whether the
\* loop breaks
stepEffect(f, res, e) ==
    LET tempResult == IF f.sig = "controller" THEN f.ret ELSE Nil
        tempErr == IF f.sig = "controller" THEN f.err ELSE NoErr
        e1 == IF f.sig = "unsupported"
              THEN PlainErr("Unsupported route handler function definition") ELSE e
    IN IF tempErr # NoErr THEN [result |-> res, err |-> tempErr, break |-> FALSE]
       ELSE IF tempResult # Nil THEN
           IF res = Nil THEN [result |-> tempResult, err |-> e1, break |-> FALSE]
           ELSE [result |-> res, break |-> TRUE,
                 err |-> PlainErr("Middleware should not return anything but may mutate context")]
       ELSE [result |-> res, err |-> e1, break |-> FALSE]

\* the selector that the goroutine reads: routeReducer declares no such name,
\* requestObject has no such field and handleRequest takes none from the item
selector == NilSelector

\* the tuple the timer's function sends
timeoutTuple(id, route) == Tuple(id, route, Nil, ErrorMap("Internal Server Error", 500))

\* the tuples the goroutine sends after the loop, in order
reducerTuples(id, route, res, e) ==
    IF e # NoErr THEN
        <<Tuple(id, route, Nil,
                ErrorMap(e.Message, IF e.kind = "blest" THEN e.StatusCode ELSE 500))>>
    ELSE IF res # Nil THEN
        IF res.t = "map" THEN
            <<Tuple(id, route,
                    IF selector.nil THEN res
                    ELSE MapOf(filterObject(MapContents(res.n), selector).obj),
                    NilError)>>
        ELSE <<Tuple(id, route, Nil,
                     ErrorMap("The result, if any, should be a JSON object", 500)),
               Tuple(id, route, res, NilError)>>
    ELSE <<Tuple(id, route, Nil, NilError)>>

\* a value is received from resultChan of item i and appended to results
Receive(i, tuple) ==
    /\ results' = Append(results, tuple)
    /\ emitted' = [emitted EXCEPT ![i] = Append(@, tuple)]

\* the goroutine returns: the deferred close(resultChan) runs
Exit ==
    /\ chanClosed' = [chanClosed EXCEPT ![idx] = TRUE]
    /\ rpc' = "idle"
    /\ k' = 1
    /\ result' = Nil
    /\ err' = NoErr
    /\ toSend' = <<>>

\* The head of one iteration of the loop over the pipeline: argCount and the
\* two guards.  timedOut is read here and nowhere else in the iteration, so
\* the timer's function may run between this read and the call of the step.
PipelineStep ==
    /\ panic = "none" /\ rpc = "loop" /\ k <= Len(CurHandler)
    /\ IF stepSkipped(CurHandler[k], timedOut[idx], err)
       THEN k' = k + 1 /\ UNCHANGED rpc
       ELSE rpc' = "call" /\ UNCHANGED k
    /\ UNCHANGED <<rtvars, xvars, requests, routes, heap, hvars, results, panic, result, err,
                   toSend, timer, timedOut, chanClosed, emitted, ran, seen, ctxAddr, firedIn>>

\* The rest of the iteration: the type switch calls the step, which may write
\* into the context, and the bookkeeping after it sets result and err.
StepCall ==
    /\ panic = "none" /\ rpc = "call"
    /\ LET f == CurHandler[k]
           eff == stepEffect(f, result, err)
       IN /\ heap' = stepMutation(heap, ctxAddr[idx].n, f.mut)
          /\ ran' = [ran EXCEPT ![idx] = Append(@, f.name)]
          /\ seen' = [seen EXCEPT ![idx] =
                         IF f.sig = "afterware" THEN Append(@, err) ELSE @]
          /\ result' = eff.result
          /\ err' = eff.err
          /\ k' = IF eff.break THEN Len(CurHandler) + 1 ELSE k + 1
    /\ rpc' = "loop"
    /\ UNCHANGED <<rtvars, xvars, requests, routes, hvars, results, panic, toSend, timer, timedOut,
                   chanClosed, emitted, ctxAddr, firedIn>>

\* after the loop: if timedOut { return }
CheckTimedOut ==
    /\ panic = "none" /\ rpc = "loop" /\ k > Len(CurHandler)
    /\ IF timedOut[idx]
       THEN Exit
       ELSE rpc' = "stop" /\ UNCHANGED <<k, result, err, toSend, chanClosed>>
    /\ UNCHANGED <<rtvars, xvars, requests, routes, heap, hvars, results, panic, timer, timedOut,
                   emitted, ran, seen, ctxAddr, firedIn>>

\* if timer != nil { timer.Stop() }, then the choice of what to send
StopTimer ==
    /\ panic = "none" /\ rpc = "stop"
    /\ timer' = [timer EXCEPT ![idx] = IF @ = "armed" THEN "stopped" ELSE @]
    /\ toSend' = reducerTuples(requests[idx][1].s, CurRoute, result, err)
    /\ rpc' = "send"
    /\ UNCHANGED <<rtvars, xvars, requests, routes, heap, hvars, results, panic, k, result, err,
                   timedOut, chanClosed, emitted, ran, seen, ctxAddr, firedIn>>

\* resultChan <- tuple, received by the range loop of handleRequest
PipelineSend ==
    /\ panic = "none" /\ rpc = "send" /\ toSend # <<>>
    /\ Receive(idx, Head(toSend))
    /\ toSend' = Tail(toSend)
    /\ UNCHANGED <<rtvars, xvars, requests, routes, heap, hvars, panic, rpc, k, result, err, timer,
                   timedOut, chanClosed, ran, seen, ctxAddr, firedIn>>

PipelineExit ==
    /\ panic = "none" /\ rpc = "send" /\ toSend = <<>>
    /\ Exit
    /\ UNCHANGED <<rtvars, xvars, requests, routes, heap, hvars, results, panic, timer, timedOut,
                   emitted, ran, seen, ctxAddr, firedIn>>

\* The timer's function starts: timedOut = true.  The goroutine reads timedOut
\* without synchronisation, so the write, the function's send and the
\* goroutine's reads and sends interleave in every order.
TimerFire ==
    /\ panic = "none"
    /\ \E i \in Items :
        /\ timer[i] = "armed"
        /\ timer' = [timer EXCEPT ![i] = "running"]
        /\ timedOut' = [timedOut EXCEPT ![i] = TRUE]
        /\ firedIn' = [firedIn EXCEPT ![i] =
                          IF i = idx /\ rpc \in {"copy", "loop", "call"} /\ k <= Len(CurHandler)
                          THEN "loop" ELSE "after"]
    /\ UNCHANGED <<rtvars, xvars, requests, routes, heap, hvars, results, panic, rvars, chanClosed,
                   emitted, ran, seen, ctxAddr>>

\* the timer's function sends its tuple; a send on a closed channel panics
TimerSend ==
    /\ panic = "none"
    /\ \E i \in Items :
        /\ timer[i] = "running"
        /\ IF chanClosed[i]
           THEN /\ panic' = "send on closed channel"
                /\ UNCHANGED <<results, emitted, timer>>
           ELSE /\ Receive(i, timeoutTuple(requests[i][1].s, requests[i][2].s))
                /\ timer' = [timer EXCEPT ![i] = "done"]
                /\ UNCHANGED panic
    /\ UNCHANGED <<rtvars, xvars, requests, routes, heap, hvars, rvars, timedOut, chanClosed, ran, seen, ctxAddr, firedIn>>

Next ==
    \/ HandleEmpty
    \/ HandleItem
    \/ ReducerArm
    \/ ReducerCopy
    \/ RangeClosed
    \/ Return
    \/ PipelineStep
    \/ StepCall
    \/ CheckTimedOut
    \/ StopTimer
    \/ PipelineSend
    \/ PipelineExit
    \/ TimerFire
    \/ TimerSend

Spec == Init /\ [][Next]_vars

(***************************************************************************)
(* Registration calls on two routers                                       *)
(***************************************************************************)
\* Largest number of registration calls in a run.
MaxCalls == 3

rAbOk == <<"a", "b", "/", "o", "k">>
pAb == <<"a", "b">>

\* the inputs of the calls
UseArgs == {<<mwTop>>, <<afterware>>}
RouteNames == {rOk, rSlow, rAbOk, rBad}
described == Config(Str(<<"d">>), Map(4), Bool(TRUE), Bool(TRUE), Nil)
timed == Config(Nil, Nil, Nil, Nil, Num(5))
RouteArgs == {<<<<ctrlObj>>, NoConfig>>, <<<<ctrlErr>>, described>>}
Configs == {described, timed}
Prefixes == {pAb, rBad}

Target(on) == IF on = "parent" THEN parent ELSE child

\* the call on router `on` ended in out
Called(op, on, route, handlers, options, out) ==
    /\ parent' = IF on = "parent" THEN out.router ELSE parent
    /\ child' = IF on = "child" THEN out.router ELSE child
    /\ last' = Call(op, on, route, handlers, options, out, Target(on))
    /\ nops' = nops + 1
    /\ UNCHANGED <<hsvars, xvars>>

CallUse ==
    /\ nops < MaxCalls
    /\ \E on \in {"parent", "child"}, handlers \in UseArgs :
        Called("Use", on, <<>>, handlers, NoConfig, Use(Target(on), handlers))

CallRoute ==
    /\ nops < MaxCalls
    /\ \E on \in {"parent", "child"}, route \in RouteNames, args \in RouteArgs :
        Called("Route", on, route, args[1], args[2],
               RouterRoute(Target(on), route, args[1], args[2]))

CallDescribe ==
    /\ nops < MaxCalls
    /\ \E on \in {"parent", "child"}, route \in RouteNames, config \in Configs :
        Called("Describe", on, route, <<>>, config, Describe(Target(on), route, config))

CallMerge ==
    /\ nops < MaxCalls
    /\ \E newRoutes \in Orders(DOMAIN child.Routes) :
        Called("Merge", "parent", <<>>, <<>>, NoConfig, Merge(parent, child, newRoutes))

CallNamespace ==
    /\ nops < MaxCalls
    /\ \E prefix \in Prefixes, newRoutes \in Orders(DOMAIN child.Routes) :
        Called("Namespace", "parent", prefix, <<>>, NoConfig,
               Namespace(parent, prefix, child, newRoutes))

RouterNext ==
    \/ CallUse
    \/ CallRoute
    \/ CallDescribe
    \/ CallMerge
    \/ CallNamespace

RouterSpec == RouterInit /\ [][RouterNext]_vars

(***************************************************************************)
(* Single Route and Describe calls with the names of the test and with     *)
(* every kind of options                                                   *)
(***************************************************************************)
\* Largest number of calls in a run of single calls.
MaxTries == 1

\* the names TestRouter expects Route to panic on
InvalidTestNames ==
    {<<"a">>, <<"0", "a", "b", "c">>, <<"_", "a", "b", "c">>, <<"-", "a", "b", "c">>,
     <<"a", "b", "c", "_">>, <<"a", "b", "c", "-">>,
     <<"a", "b", "c", "/", "0", "a", "b", "c">>,
     <<"a", "b", "c", "/", "_", "a", "b", "c">>,
     <<"a", "b", "c", "/", "-", "a", "b", "c">>, <<"a", "b", "c", "/">>,
     <<"/", "a", "b", "c">>, <<"a", "b", "c", "/", "/", "a", "b", "c">>,
     <<"a", "b", "c", "/", "a", "/", "a", "b", "c">>,
     <<"a", "b", "c", "/", "0", "a", "b", "c", "/", "a", "b", "c">>,
     <<"a", "b", "c", "/", "_", "a", "b", "c", "/", "a", "b", "c">>,
     <<"a", "b", "c", "/", "-", "a", "b", "c", "/", "a", "b", "c">>,
     <<"a", "b", "c", "/", "a", "b", "c", "_", "/", "a", "b", "c">>,
     <<"a", "b", "c", "/", "a", "b", "c", "-", "/", "a", "b", "c">>}

rAbc == <<"a", "b", "c">>
rAbcAbc == <<"a", "b", "c", "/", "a", "b", "c">>
TestNames == InvalidTestNames \cup {rOk, rAbc, rAbcAbc}

\* configs with a timeout: float64 5, 0 and 1.5, int 5 and -1; the config
\* with timeout 0 also carries a description
zeroTimed == Config(Str(<<"d">>), Nil, Nil, Nil, Num(0))
fracTimed == Config(Nil, Nil, Nil, Nil, Frac(1))
intTimed == Config(Nil, Nil, Nil, Nil, GoInt(5))
negIntTimed == Config(Str(<<"d">>), Nil, Nil, Nil, GoInt(0 - 1))
TestConfigs == {described, timed, zeroTimed, fracTimed, intTimed, negIntTimed}

\* Route's arguments after the name: handlers and options, no argument at all,
\* options alone
TestRouteArgs ==
    {<<<<ctrlObj>>, NoConfig>>, <<<<>>, NoConfig>>, <<<<>>, described>>}
        \cup {<<<<ctrlObj>>, config>> : config \in TestConfigs}

TryRoute ==
    /\ nops < MaxTries
    /\ \E on \in {"parent", "child"}, route \in TestNames, args \in TestRouteArgs :
        Called("Route", on, route, args[1], args[2],
               RouterRoute(Target(on), route, args[1], args[2]))

TryDescribe ==
    /\ nops < MaxTries
    /\ \E on \in {"parent", "child"}, route \in {rOk, rAbc}, config \in TestConfigs :
        Called("Describe", on, route, <<>>, config, Describe(Target(on), route, config))

TryNext ==
    \/ TryRoute
    \/ TryDescribe

TrySpec == RouterInit /\ [][TryNext]_vars

(***************************************************************************)
(* validateRoute applied to route names                                    *)
(***************************************************************************)
\* Largest length of a generated route name.
MaxRouteLen == 5

\* a letter, a digit, the three other characters of the grammar and one
\* character outside it
RouteAlphabet == {"a", "0", "_", "-", "/", "!"}

RouteStrings == UNION {[1..len -> RouteAlphabet] : len \in 0..MaxRouteLen}

ValidateInit ==
    /\ requests = <<>>
    /\ HandleIdle
    /\ RouterIdle
    /\ fnArg \in [route : RouteStrings, system : BOOLEAN]
    /\ fnRes = NotCalled
    /\ ClientIdle

CallValidateRoute ==
    /\ ~fnRes.called
    /\ fnRes' = ReturnedValue(validateRoute(fnArg.route, fnArg.system))
    /\ UNCHANGED <<hsvars, rtvars, fnArg, cvars>>

ValidateNext == CallValidateRoute

ValidateSpec == ValidateInit /\ [][ValidateNext]_vars

(***************************************************************************)
(* filterObject applied to objects and selectors                           *)
(***************************************************************************)
\* Largest length of a generated slice of an object.
MaxElems == 1
\* Largest length of a generated selector.
MaxSelector == 2

FilterKeys == {"a", "b"}

\* the maps with keys of keys and values of values
MapsOver(keys, values) == UNION {[names -> values] : names \in SUBSET keys}

SlicesOver(values, len) == UNION {[1..n -> values] : n \in 0..len}

Leaves == {Number(1)} \cup {Object(fields) : fields \in MapsOver(FilterKeys, {Number(1)})}

FilterValues == Leaves \cup {Array(elems) : elems \in SlicesOver(Leaves, MaxElems)}

FilterObjects == MapsOver(FilterKeys, FilterValues)

SubSelectors ==
    {Selector(keys) :
        keys \in SlicesOver({KeyString(key) : key \in FilterKeys}, MaxSelector)}

SelectorKeys ==
    {KeyString(key) : key \in FilterKeys}
        \cup {KeyPair(key, sub) : key \in FilterKeys, sub \in SubSelectors}

Selectors == {NilSelector} \cup {Selector(keys) : keys \in SlicesOver(SelectorKeys, MaxSelector)}

FilterInit ==
    /\ requests = <<>>
    /\ HandleIdle
    /\ RouterIdle
    /\ fnArg \in [obj : FilterObjects, arr : Selectors]
    /\ fnRes = NotCalled
    /\ ClientIdle

CallFilterObject ==
    /\ ~fnRes.called
    /\ fnRes' = ReturnedValue(filterObject(fnArg.obj, fnArg.arr))
    /\ UNCHANGED <<hsvars, rtvars, fnArg, cvars>>

FilterNext == CallFilterObject

FilterSpec == FilterInit /\ [][FilterNext]_vars

(***************************************************************************)
(* HttpClient.Request, eventEmitter and HttpClient.Process.  The client    *)
(* has no lock: every read and every write of c.Queue, c.Timeout and       *)
(* e.events is a step of its own, and steps of the callers, of the         *)
(* goroutines of the emitter and of the runs of Process interleave.        *)
(***************************************************************************)
rFailing == <<"f", "a", "i", "l">>

\* the call tuple [id, route, body, headers] of caller c
CallTuple(c) ==
    LET args == callers[c].args
    IN [id |-> c, route |-> callers[c].route,
        body |-> IF Len(args) > 0 /\ args[1].t = "map" THEN args[1] ELSE Nil,
        headers |-> IF Len(args) > 1 /\ args[2].t = "map" THEN args[2] ELSE Nil]

\* the server's tuple for a call tuple: a result map of its own for every id,
\* or the error of the route
ServerReply(tuple) ==
    IF tuple.route = rFailing
    THEN [id |-> tuple.id, result |-> Nil, error |-> ErrorMap("ERROR_5", 500)]
    ELSE [id |-> tuple.id, result |-> Map(tuple.id), error |-> NilError]

\* the value emit sends for a tuple r of the response: [r[2], r[3]]
EmitArgs(r) == [result |-> r.result, error |-> r.error]

\* what Request returns for a value received from ch
requestOutcome(val) ==
    IF ~val.error.nil THEN RequestReturned(Nil, val.error.message)
    ELSE RequestReturned(val.result, "")

Running == fatal = ""

SetCaller(c, pc, sawNil, snap) ==
    callers' = [callers EXCEPT ![c].pc = pc, ![c].sawNil = sawNil, ![c].snap = snap]

\* Request(route, args...) up to uuid.New() and the two make(chan) of Request
\* and once.  An argument that is no map leaves b and h nil, so the tests
\* `!ok && b != nil` and `!ok && h != nil` never hold; args[1] is read
\* whenever there is an argument.
Request(c, route, args) ==
    /\ Running /\ callers[c].pc = "idle"
    /\ callers' = [callers EXCEPT ![c] =
            IF route = <<>>
            THEN [@ EXCEPT !.pc = "done", !.route = route, !.args = args,
                           !.out = RequestReturned(Nil, "Route is required")]
            ELSE IF Len(args) = 1
            THEN [@ EXCEPT !.pc = "done", !.route = route, !.args = args,
                           !.out = RequestPanicked("index out of range [1] with length 1")]
            ELSE [@ EXCEPT !.pc = "on", !.route = route, !.args = args]]
    /\ chOnce' = [chOnce EXCEPT ![c] =
                     IF callers'[c].pc = "on" THEN OpenChan ELSE @]
    /\ UNCHANGED <<client, chReply, sends, timers, flushes, posts, fatal>>

\* a call of Request with a body, or with a body and headers
RequestCall(c) ==
    \E route \in {<<>>, rOk}, args \in {<<Map(2)>>, <<Map(2), Map(3)>>} :
        Request(c, route, args)

\* on: if e.events == nil
OnCheck(c) ==
    /\ Running /\ callers[c].pc = "on"
    /\ SetCaller(c, IF client.eventsNil THEN "onMake" ELSE "onAppend", client.eventsNil, <<>>)
    /\ UNCHANGED <<client, chOnce, chReply, sends, timers, flushes, posts, fatal>>

\* on: e.events = make(...), the store of a new, empty map by a caller that
\* saw nil; the map that e.events held before is lost with its channels
OnMake(c) ==
    /\ Running /\ callers[c].pc = "onMake"
    /\ client' = [client EXCEPT !.eventsNil = FALSE, !.events = {}]
    /\ SetCaller(c, "onAppend", FALSE, <<>>)
    /\ UNCHANGED <<chOnce, chReply, sends, timers, flushes, posts, fatal>>

\* on: e.events[event] = append(e.events[event], ch), on the map that
\* e.events holds now
OnAppend(c) ==
    /\ Running /\ callers[c].pc = "onAppend"
    /\ client' = [client EXCEPT !.events = @ \cup {c}]
    /\ SetCaller(c, "qread", FALSE, <<>>)
    /\ UNCHANGED <<chOnce, chReply, sends, timers, flushes, posts, fatal>>

\* append(c.Queue, ...): the read of c.Queue
QueueRead(c) ==
    /\ Running /\ callers[c].pc = "qread"
    /\ SetCaller(c, "qwrite", FALSE, client.Queue)
    /\ UNCHANGED <<client, chOnce, chReply, sends, timers, flushes, posts, fatal>>

\* c.Queue = append(...): the write of c.Queue
QueueWrite(c) ==
    /\ Running /\ callers[c].pc = "qwrite"
    /\ client' = [client EXCEPT !.Queue = Append(callers[c].snap, CallTuple(c))]
    /\ SetCaller(c, "tcheck", FALSE, <<>>)
    /\ UNCHANGED <<chOnce, chReply, sends, timers, flushes, posts, fatal>>

\* if c.Timeout == nil
TimeoutCheck(c) ==
    /\ Running /\ callers[c].pc = "tcheck"
    /\ SetCaller(c, "tset", client.Timeout = 0, <<>>)
    /\ UNCHANGED <<client, chOnce, chReply, sends, timers, flushes, posts, fatal>>

\* time.AfterFunc(1*time.Millisecond, c.Process): the timer is started, and
\* can fire, before its pointer is stored
AfterFunc(c) ==
    /\ Running /\ callers[c].pc = "tset"
    /\ IF callers[c].sawNil
       THEN /\ timers' = Append(timers, "armed")
            /\ callers' = [callers EXCEPT ![c].pc = "twrite", ![c].sawNil = FALSE,
                                          ![c].made = Len(timers) + 1]
       ELSE /\ SetCaller(c, "select", FALSE, <<>>)
            /\ UNCHANGED timers
    /\ UNCHANGED <<client, chOnce, chReply, sends, flushes, posts, fatal>>

\* c.Timeout = ...: the write of c.Timeout
TimeoutSet(c) ==
    /\ Running /\ callers[c].pc = "twrite"
    /\ client' = [client EXCEPT !.Timeout = callers[c].made]
    /\ callers' = [callers EXCEPT ![c].pc = "select", ![c].made = 0]
    /\ UNCHANGED <<chOnce, chReply, sends, timers, flushes, posts, fatal>>

\* select: case val := <-ch
SelectReceive(c) ==
    /\ Running /\ callers[c].pc = "select"
    /\ chReply[c] # <<>>
    /\ callers' = [callers EXCEPT ![c].pc = "done", ![c].out = requestOutcome(Head(chReply[c]))]
    /\ chReply' = [chReply EXCEPT ![c] = Tail(@)]
    /\ UNCHANGED <<client, chOnce, sends, timers, flushes, posts, fatal>>

\* select: case <-time.After(5 * time.Second); when a value is in ch as well,
\* select takes either case
SelectDeadline(c) ==
    /\ Running /\ callers[c].pc = "select"
    /\ callers' = [callers EXCEPT ![c].pc = "done",
                                  ![c].out = RequestReturned(Nil, "Request timed out")]
    /\ UNCHANGED <<client, chOnce, chReply, sends, timers, flushes, posts, fatal>>

\* the goroutine of once: for val := range chOnce
OnceRecv(c) ==
    /\ Running /\ chOnce[c].once = "recv" /\ chOnce[c].buf # <<>>
    /\ chOnce' = [chOnce EXCEPT ![c].once = "send", ![c].val = chOnce[c].buf, ![c].buf = <<>>]
    /\ UNCHANGED <<client, callers, chReply, sends, timers, flushes, posts, fatal>>

\* the goroutine of once: ch <- val
OnceSend(c) ==
    /\ Running /\ chOnce[c].once = "send"
    /\ chReply' = [chReply EXCEPT ![c] = Append(@, Head(chOnce[c].val))]
    /\ chOnce' = [chOnce EXCEPT ![c].once = "off", ![c].val = <<>>]
    /\ UNCHANGED <<client, callers, sends, timers, flushes, posts, fatal>>

\* the goroutine of once: e.off(event, chOnce)
OnceOff(c) ==
    /\ Running /\ chOnce[c].once = "off"
    /\ client' = [client EXCEPT !.events = @ \ {c}]
    /\ chOnce' = [chOnce EXCEPT ![c].once = "close"]
    /\ UNCHANGED <<callers, chReply, sends, timers, flushes, posts, fatal>>

\* the goroutine of once: the deferred close(chOnce)
OnceClose(c) ==
    /\ Running /\ chOnce[c].once = "close"
    /\ chOnce' = [chOnce EXCEPT ![c].once = "done", ![c].state = "closed"]
    /\ UNCHANGED <<client, callers, chReply, sends, timers, flushes, posts, fatal>>

\* a goroutine of emit: ch <- args.  It waits while the buffer is full, and a
\* send on the closed channel is a panic.
EmitSend(c) ==
    /\ Running /\ sends[c] > 0
    /\ \/ /\ chOnce[c].state = "open" /\ chOnce[c].buf = <<>>
          /\ chOnce' = [chOnce EXCEPT ![c].buf = <<EmitArgs(ServerReply(CallTuple(c)))>>]
          /\ UNCHANGED fatal
       \/ /\ chOnce[c].state = "closed"
          /\ fatal' = "send on closed channel"
          /\ UNCHANGED chOnce
    /\ sends' = [sends EXCEPT ![c] = @ - 1]
    /\ UNCHANGED <<client, callers, chReply, timers, flushes, posts>>

\* a timer made by AfterFunc fires and starts c.Process in its own goroutine
ClientTimerFire ==
    /\ Running /\ Len(flushes) < MaxFlushes
    /\ \E t \in 1..Len(timers) :
        /\ timers[t] = "armed"
        /\ timers' = [timers EXCEPT ![t] = "fired"]
    /\ flushes' = Append(flushes, NewFlush)
    /\ UNCHANGED <<client, callers, chOnce, chReply, sends, posts, fatal>>

min(a, b) == IF a < b THEN a ELSE b

\* c.Queue[:min(len(c.Queue), c.MaxBatchSize)] reads c.Queue twice, as the
\* operand of the slice expression and inside the call of min, in an order
\* that Go leaves open.  ProcessTake is the first of the two reads: the operand
\* (kept in newQueue until it is sliced) or the length (kept in high).
ProcessTake(p) ==
    /\ Running /\ flushes[p].pc = "take"
    /\ \/ flushes' = [flushes EXCEPT ![p].pc = "takeLen", ![p].newQueue = client.Queue]
       \/ flushes' = [flushes EXCEPT ![p].pc = "takeOperand",
                         ![p].high = min(Len(client.Queue), client.MaxBatchSize)]
    /\ UNCHANGED <<client, callers, chOnce, chReply, sends, timers, posts, fatal>>

\* The second read and the slice expression, which panics when the length
\* exceeds the capacity of the operand.  A slice that append or s[n:] has
\* stored in c.Queue is full up to MaxCallers elements (append grows an
\* array of 0, 1 elements to 1, 2), so the capacity of the operand is its
\* length.
ProcessSlice(p) ==
    /\ Running /\ flushes[p].pc \in {"takeLen", "takeOperand"}
    /\ LET operand == IF flushes[p].pc = "takeLen" THEN flushes[p].newQueue ELSE client.Queue
           high == IF flushes[p].pc = "takeLen"
                   THEN min(Len(client.Queue), client.MaxBatchSize) ELSE flushes[p].high
       IN IF high > Len(operand)
          THEN /\ fatal' = "slice bounds out of range"
               /\ UNCHANGED flushes
          ELSE /\ flushes' = [flushes EXCEPT ![p].pc = "drop", ![p].high = 0,
                                 ![p].newQueue = SubSeq(operand, 1, high)]
               /\ UNCHANGED fatal
    /\ UNCHANGED <<client, callers, chOnce, chReply, sends, timers, posts>>

\* c.Queue[len(newQueue):]: the read of c.Queue, a panic if it is shorter by
\* now
ProcessCut(p) ==
    /\ Running /\ flushes[p].pc = "drop"
    /\ IF Len(flushes[p].newQueue) > Len(client.Queue)
       THEN /\ fatal' = "slice bounds out of range"
            /\ flushes' = [flushes EXCEPT ![p].pc = "write"]
       ELSE /\ flushes' = [flushes EXCEPT ![p].pc = "write",
                              ![p].rest = SubSeq(client.Queue, Len(flushes[p].newQueue) + 1,
                                                 Len(client.Queue))]
            /\ UNCHANGED fatal
    /\ UNCHANGED <<client, callers, chOnce, chReply, sends, timers, posts>>

\* c.Queue = ...: the write of c.Queue
ProcessDrop(p) ==
    /\ Running /\ flushes[p].pc = "write"
    /\ client' = [client EXCEPT !.Queue = flushes[p].rest]
    /\ flushes' = [flushes EXCEPT ![p].pc = "stop", ![p].rest = <<>>]
    /\ UNCHANGED <<callers, chOnce, chReply, sends, timers, posts, fatal>>

\* c.Timeout.Stop(), a panic if c.Timeout is nil
ProcessStop(p) ==
    /\ Running /\ flushes[p].pc = "stop"
    /\ IF client.Timeout = 0
       THEN /\ fatal' = "invalid memory address or nil pointer dereference"
            /\ UNCHANGED timers
       ELSE /\ timers' = [timers EXCEPT ![client.Timeout] = IF @ = "armed" THEN "stopped" ELSE @]
            /\ UNCHANGED fatal
    /\ flushes' = [flushes EXCEPT ![p].pc = "rearm"]
    /\ UNCHANGED <<client, callers, chOnce, chReply, sends, posts>>

\* if len(c.Queue) == 0: the read of c.Queue
ProcessLen(p) ==
    /\ Running /\ flushes[p].pc = "rearm"
    /\ flushes' = [flushes EXCEPT ![p].pc = IF Len(client.Queue) = 0 THEN "clear" ELSE "reset"]
    /\ UNCHANGED <<client, callers, chOnce, chReply, sends, timers, posts, fatal>>

\* { c.Timeout = nil } else { c.Timeout.Reset(1 * time.Millisecond) }: the
\* write of c.Timeout, or the reset of the timer it points to
ProcessRearm(p) ==
    /\ Running /\ flushes[p].pc \in {"clear", "reset"}
    /\ IF flushes[p].pc = "clear"
       THEN /\ client' = [client EXCEPT !.Timeout = 0]
            /\ UNCHANGED <<timers, fatal>>
       ELSE IF client.Timeout = 0
       THEN /\ fatal' = "invalid memory address or nil pointer dereference"
            /\ UNCHANGED <<client, timers>>
       ELSE /\ timers' = [timers EXCEPT ![client.Timeout] = "armed"]
            /\ UNCHANGED <<client, fatal>>
    /\ flushes' = [flushes EXCEPT ![p].pc = "post"]
    /\ UNCHANGED <<callers, chOnce, chReply, sends, posts>>

\* httpPostRequest: the POST of newQueue.  It returns the server's tuples for
\* the call tuples, in any order, or nil when the request or the decoding of
\* the response fails (as it does for the answer to an empty array).
ProcessPost(p) ==
    /\ Running /\ flushes[p].pc = "post"
    /\ posts' = Append(posts, flushes[p].newQueue)
    /\ LET newQueue == flushes[p].newQueue
       IN \/ flushes' = [flushes EXCEPT ![p].pc = "emit", ![p].data = <<>>]
          \/ /\ newQueue # <<>>
             /\ \E order \in Orders(1..Len(newQueue)) :
                 flushes' = [flushes EXCEPT ![p].pc = "emit",
                                ![p].data = [j \in 1..Len(newQueue) |->
                                                ServerReply(newQueue[order[j]])]]
    /\ UNCHANGED <<client, callers, chOnce, chReply, sends, timers, fatal>>

\* for _, r := range data { c.Emitter.emit(r[0].(string), r[2], r[3]) }: one
\* call of emit, which starts a goroutine for the channel of the id if the map
\* has one; Process returns after the last
ProcessEmit(p) ==
    /\ Running /\ flushes[p].pc = "emit"
    /\ LET data == flushes[p].data
           next == flushes[p].next
       IN IF next > Len(data)
          THEN /\ flushes' = [flushes EXCEPT ![p].pc = "done"]
               /\ UNCHANGED sends
          ELSE /\ sends' = [sends EXCEPT ![data[next].id] =
                               IF data[next].id \in client.events THEN @ + 1 ELSE @]
               /\ flushes' = [flushes EXCEPT ![p].next = next + 1,
                                 ![p].pc = IF next = Len(data) THEN "done" ELSE "emit"]
    /\ UNCHANGED <<client, callers, chOnce, chReply, timers, posts, fatal>>

\* the goroutines whose next step writes the map e.events, and those whose
\* next step reads it
MapWriters ==
    {<<"caller", c>> : c \in {c \in Callers : callers[c].pc = "onAppend"}}
        \cup {<<"once", c>> : c \in {c \in Callers : chOnce[c].once = "off"
                                                      /\ c \in client.events}}
MapReaders ==
    {<<"once", c>> : c \in {c \in Callers : chOnce[c].once = "off" /\ c \notin client.events}}
    \cup
    {<<"process", p>> : p \in {p \in 1..Len(flushes) : /\ flushes[p].pc = "emit"
                                                       /\ flushes[p].next <= Len(flushes[p].data)}}

\* two goroutines are in the map at once, one of them writing: the runtime
\* can stop the process with "concurrent map writes" or "concurrent map read
\* and map write"
ConcurrentMapAccess ==
    /\ Running
    /\ \E g \in MapWriters : \E h \in MapWriters \cup MapReaders : g # h
    /\ fatal' = "concurrent map access"
    /\ UNCHANGED <<client, callers, chOnce, chReply, sends, timers, flushes, posts>>

\* the steps of a call of Request after its validation, and of the goroutines
\* it starts
CallerStep(c) ==
    \/ OnCheck(c)
    \/ OnMake(c)
    \/ OnAppend(c)
    \/ QueueRead(c)
    \/ QueueWrite(c)
    \/ TimeoutCheck(c)
    \/ AfterFunc(c)
    \/ TimeoutSet(c)
    \/ SelectReceive(c)
    \/ SelectDeadline(c)
    \/ OnceRecv(c)
    \/ OnceSend(c)
    \/ OnceOff(c)
    \/ OnceClose(c)
    \/ EmitSend(c)

\* the timers and the runs of Process
FlushStep ==
    \/ ClientTimerFire
    \/ \E p \in 1..Len(flushes) :
            \/ ProcessTake(p)
            \/ ProcessSlice(p)
            \/ ProcessCut(p)
            \/ ProcessDrop(p)
            \/ ProcessStop(p)
            \/ ProcessLen(p)
            \/ ProcessRearm(p)
            \/ ProcessPost(p)
            \/ ProcessEmit(p)

ClientNext ==
    /\ \/ \E c \in Callers : RequestCall(c) \/ CallerStep(c)
       \/ FlushStep
       \/ ConcurrentMapAccess
    /\ UNCHANGED <<hsvars, rtvars, pvars>>

ClientInit ==
    /\ requests = <<>>
    /\ HandleIdle
    /\ RouterIdle
    /\ PureIdle
    /\ ClientIdle

ClientSpec == ClientInit /\ [][ClientNext]_vars

\* caller c has passed the validation of Request
Validated(c) ==
    /\ callers[c].pc # "idle"
    /\ ~(callers[c].pc = "done" /\ callers[c].route = <<>>)
    /\ callers[c].out.state # "panicked"

\* caller c has appended its call tuple to c.Queue
Enqueued(c) ==
    Validated(c) /\ callers[c].pc \notin {"on", "onMake", "onAppend", "qread", "qwrite"}

\* the calls of one batch: every goroutine has called Request, and every call
\* that passed the validation is enqueued, before a flush timer fires
BatchNext ==
    /\ ClientNext
    /\ Len(flushes') > Len(flushes) =>
           \A c \in Callers : callers[c].pc # "idle" /\ (Validated(c) => Enqueued(c))

BatchSpec == ClientInit /\ [][BatchNext]_vars

\* the arguments of Request after the route: none, one or two, each of them
\* nil, a map or a string
RequestArgs == SlicesOver({Nil, Map(2), Str(<<"s">>)}, 2)

\* one goroutine calls Request once, with every kind of arguments
CallNext ==
    /\ \/ \E route \in {<<>>, rOk, rFailing}, args \in RequestArgs : Request(1, route, args)
       \/ CallerStep(1)
       \/ FlushStep
    /\ UNCHANGED <<hsvars, rtvars, pvars>>

CallSpec == ClientInit /\ [][CallNext]_vars

\* staggered calls: a goroutine calls Request while every call made before
\* waits in its select for the reply, or has returned
StaggerNext ==
    /\ ClientNext
    /\ \A c \in Callers :
          (callers[c].pc = "idle" /\ callers'[c].pc # "idle") =>
              \A d \in Callers \ {c} : callers[d].pc \in {"idle", "select", "done"}

StaggerSpec == ClientInit /\ [][StaggerNext]_vars

\* the values of the exported field MaxBatchSize: the one NewHttpClient sets,
\* and one that a program has assigned to split its batches
BatchSizes == {1, DefaultMaxBatchSize}

\* staggered calls on a client whose MaxBatchSize is any of BatchSizes
FlushInit ==
    /\ requests = <<>>
    /\ HandleIdle
    /\ RouterIdle
    /\ PureIdle
    /\ client \in {[NewHttpClient EXCEPT !.MaxBatchSize = size] : size \in BatchSizes}
    /\ callers = [c \in Callers |-> IdleCaller]
    /\ chOnce = [c \in Callers |-> NoChan]
    /\ chReply = [c \in Callers |-> <<>>]
    /\ sends = [c \in Callers |-> 0]
    /\ timers = <<>>
    /\ flushes = <<>>
    /\ posts = <<>>
    /\ fatal = ""

FlushSpec == FlushInit /\ [][StaggerNext]_vars

(***************************************************************************)
(* NewHttpServer: the answer of the HTTP handler to what the request       *)
(* handler returned                                                        *)
(***************************************************************************)
\* a Go string whose characters the code does not inspect
Text(string) == [t |-> "text", s |-> <<string>>, n |-> 0]

\* the map[string]interface{} that a request handler returns as its error
NoReqErr == [nil |-> TRUE, fields |-> EmptyFields]
ReqErr(fields) == [nil |-> FALSE, fields |-> fields]

\* handleError's map {"code": code, "message": message}
handleErrorMap(code, message) ==
    ReqErr([key \in {"code", "message"} |->
               IF key = "code" THEN GoInt(code) ELSE Text(message)])

\* what fmt.Fprint writes for a value
Fprint(value) == IF value.t = "nil" THEN Text("<nil>") ELSE value

\* m[key] of a Go map: nil when the key is absent
Lookup(fields, key) == IF key \in DOMAIN fields THEN fields[key] ELSE Nil

\* the response of the handler function of NewHttpServer after the call of
\* requestHandler: the status, the body, and the tuples written as JSON
Response(status, body, json) == [status |-> status, body |-> body, json |-> json]

respond(res, reqErr) ==
    IF ~reqErr.nil THEN
        LET code == Lookup(reqErr.fields, "code")
            statusCode == IF code.t = "int" THEN code.n ELSE 500
        IN Response(statusCode, Fprint(Lookup(reqErr.fields, "error")), <<>>)
    ELSE IF ~res.nil THEN Response(200, Text("json"), res.tuples)
    ELSE Response(204, Text(""), <<>>)

\* the errors a request handler can return: nil, and the maps with some of the
\* keys code, message and error
ReqErrs ==
    {NoReqErr, handleErrorMap(400, "Request body should be a JSON array")} \cup
    {ReqErr(fields) :
        fields \in UNION {{f \in [names -> {GoInt(400), GoInt(404), GoInt(500), Num(400),
                                            Text("Request body should be a JSON array"),
                                            Text("Request items should have unique IDs"),
                                            Text("failed")}] :
                               /\ "code" \in names => f["code"].t \in {"int", "num"}
                               /\ "message" \in names => f["message"].t = "text"
                               /\ "error" \in names => f["error"] = Text("failed")} :
                          names \in SUBSET {"code", "message", "error"}}}

\* the results a request handler can return: nil, or tuples
HandlerResults ==
    {[nil |-> TRUE, tuples |-> <<>>],
     [nil |-> FALSE, tuples |-> <<Tuple(<<"a">>, rOk, Map(1), NilError)>>],
     [nil |-> FALSE, tuples |-> <<Tuple(<<"a">>, rFail, Nil, ErrorMap("ERROR_5", 500))>>]}

ServerInit ==
    /\ requests = <<>>
    /\ HandleIdle
    /\ RouterIdle
    /\ fnArg \in [result : HandlerResults, reqErr : ReqErrs]
    /\ fnRes = NotCalled
    /\ ClientIdle

CallRespond ==
    /\ ~fnRes.called
    /\ fnRes' = ReturnedValue(respond(fnArg.result, fnArg.reqErr))
    /\ UNCHANGED <<hsvars, rtvars, fnArg, cvars>>

ServerNext == CallRespond

ServerSpec == ServerInit /\ [][ServerNext]_vars

(***************************************************************************)
(* Properties                                                              *)
(***************************************************************************)
Returned == hpc = "done"

WellFormed(request) ==
    /\ Len(request) >= 2
    /\ request[1].t = "str" /\ request[1].s # <<>>
    /\ request[2].t = "str" /\ request[2].s # <<>>

AllWellFormed == requests # <<>> /\ \A i \in Items : WellFormed(requests[i])

HasDuplicateId ==
    \E i, j \in Items :
        /\ i < j
        /\ Len(requests[i]) >= 1 /\ Len(requests[j]) >= 1
        /\ requests[i][1].t = "str" /\ requests[i][1] = requests[j][1]

BatchRejected == ret.resultsNil /\ ret.results = <<>> /\ ~ret.error.nil /\ ret.error.code = 400

\* the tuples of ret.results that carry the id of item i
TuplesOf(i) == SelectSeq(ret.results, LAMBDA tuple : tuple.id = requests[i][1].s)

\* C1: when Handle returns no batch error, the result array is as long as the
\* batch and its i-th tuple carries the id and the route of the i-th item.
C1_OrderPreserved ==
    (Returned /\ ret.error.nil) =>
        /\ Len(ret.results) = Len(requests)
        /\ \A i \in Items : /\ ret.results[i].id = requests[i][1].s
                            /\ ret.results[i].route = requests[i][2].s

\* C2: for an item whose route has a positive timeout, at most one tuple is
\* ever received from its channel, exactly one once the channel is closed, and
\* no send hits the closed channel.
C2_OneTuplePerTimedItem ==
    /\ panic # "send on closed channel"
    /\ \A i \in Items :
        timer[i] # "none" =>
            /\ Len(emitted[i]) <= 1
            /\ chanClosed[i] => Len(emitted[i]) = 1

\* C3: if the timer fires while the pipeline still has steps to run, the item
\* gets the timeout tuple and nothing else: no other tuple is ever received,
\* and once the goroutine is over the timeout tuple has been received.
C3_TimeoutTupleOnly ==
    \A i \in Items :
        firedIn[i] = "loop" =>
            /\ \A j \in 1..Len(emitted[i]) :
                   emitted[i][j] = timeoutTuple(requests[i][1].s, requests[i][2].s)
            /\ Len(emitted[i]) <= 1
            /\ chanClosed[i] => Len(emitted[i]) = 1

\* C4: once the timeout tuple of the current item has been received, the
\* handler can leave the item whatever the pipeline does.
C4_HandlerStopsWaiting ==
    (hpc = "collect" /\ timer[idx] = "done" /\ panic = "none") => ENABLED RangeClosed

\* the context an item's steps must receive: the ambient entries, and the
\* item's own id, route, headers and time
Scalar(value) == [kind |-> "scalar", val |-> value, fields |-> EmptyFields, elems |-> <<>>]
MapView(fields) == [kind |-> "map", val |-> Nil, fields |-> fields, elems |-> <<>>]
ListView(elems) == [kind |-> "list", val |-> Nil, fields |-> EmptyFields, elems |-> elems]

AmbientView ==
    [key \in {"k", "m", "l", "id"} |->
        CASE key = "k" -> Scalar(Str(<<"v">>))
          [] key = "m" -> MapView([x \in {"x"} |-> Scalar(Str(<<"v">>))])
          [] key = "l" -> ListView(<<MapView([x \in {"x"} |-> Scalar(Str(<<"v">>))])>>)
          [] key = "id" -> Scalar(Str(<<"z">>))]

\* the headers a handler of item i reads: the item's headers map, or an empty
\* map when the item has none
HeadersView(i) ==
    IF itemHeaders(requests[i]) = Nil THEN MapView(EmptyFields)
    ELSE Scalar(itemHeaders(requests[i]))

ExpectedContext(i) ==
    MapView([key \in {"k", "m", "l", "id", "route", "headers", "time"} |->
        CASE key = "id" -> Scalar(requests[i][1])
          [] key = "route" -> Scalar(requests[i][2])
          [] key = "headers" -> HeadersView(i)
          [] key = "time" -> Scalar(Num(0))
          [] OTHER -> AmbientView[key]])

\* C5: whatever the steps of the items write into their contexts, the ambient
\* context keeps its value, and every item's first step receives the ambient
\* entries and its own id, route, headers and time.
C5_ContextIsolation ==
    /\ View(heap, AmbientContext) = MapView(AmbientView)
    /\ (rpc = "loop" /\ ran[idx] = <<>>) => View(heap, ctxAddr[idx]) = ExpectedContext(idx)

\* the second item is about to run its first step after the steps of the first
\* item wrote a top-level key, a key of a nested map and a key of a map in a list
C5_Witness ==
    /\ idx = 2 /\ rpc = "loop" /\ ran[2] = <<>>
    /\ ran[1] = <<"mwTop", "mwNested", "mwList", "ctrlObj">>
    /\ View(heap, ctxAddr[1]) # ExpectedContext(1)

\* C6: a batch with a duplicate id is rejected with code 400 and a nil result
\* array; when its items are otherwise well-formed the message is the one of
\* the uniqueness check.
C6_DuplicateIdRejected ==
    (Returned /\ HasDuplicateId) =>
        /\ BatchRejected
        /\ AllWellFormed => ret.error.message = "Request items should have unique IDs"

\* a duplicate is rejected after the items before it produced their tuples
C6_Witness ==
    /\ Returned /\ HasDuplicateId /\ AllWellFormed
    /\ results # <<>> /\ ret.resultsNil

\* C7: a batch with a malformed item is rejected with code 400 and no
\* results, and indexing the item never panics.
C7_MalformedItemRejected ==
    (\E i \in Items : ~WellFormed(requests[i])) =>
        /\ panic # "index out of range"
        /\ Returned => BatchRejected

\* C8: a batch with an item whose route violates the route grammar is rejected
\* with code 400 and no per-item tuples.
C8_BadRouteRejected ==
    (Returned /\ \E i \in Items : /\ WellFormed(requests[i])
                                  /\ validateRoute(requests[i][2].s, FALSE) # "")
        => BatchRejected

\* an item whose pipeline was started, and one whose pipeline is over
Started(i) == ctxAddr[i] # Nil
Over(i) == Started(i) /\ chanClosed[i]
ItemId(i) == requests[i][1].s
ItemRoute(i) == requests[i][2].s

\* the tuple an item's own pipeline produces
OwnTuple(i) ==
    LET id == requests[i][1].s
        route == requests[i][2].s
    IN CASE route = rOk -> Tuple(id, route, Map(1), NilError)
         [] route = rSlow -> Tuple(id, route, Map(1), NilError)
         [] route = rFail -> Tuple(id, route, Nil, ErrorMap("ERROR_5", 500))
         [] route = rStr ->
              Tuple(id, route, Nil, ErrorMap("The result, if any, should be a JSON object", 500))
         [] route = rTwo ->
              Tuple(id, route, Nil,
                    ErrorMap("Middleware should not return anything but may mutate context", 500))
         [] route \in {rErr0, rErr1, rErrC} ->
              Tuple(id, route, Nil,
                    ErrorMap("Forbidden", routes[route].Handler[1].err.StatusCode))
         [] OTHER -> Tuple(id, route, Nil, ErrorMap("Not Found", 404))

UniqueIds == \A i, j \in Items : i # j => requests[i][1] # requests[j][1]

InResults(tuple) == \E j \in 1..Len(ret.results) : ret.results[j] = tuple

\* item j ended in a per-item error: its timer fired, or a tuple sent for it
\* carries an error
EndedInError(j) ==
    timedOut[j] \/ \E x \in 1..Len(emitted[j]) : ~emitted[j][x].error.nil

\* what the result may hold for item i: the one tuple of its own pipeline or,
\* on a route with a timeout, the one timeout tuple
OwnTuples(i) ==
    {<<OwnTuple(i)>>}
        \cup (IF routeTimeout(routes, ItemRoute(i)) > 0
              THEN {<<timeoutTuple(ItemId(i), ItemRoute(i))>>} ELSE {})

\* C9: a batch of well-formed items with unique ids never gets a batch error
\* and never ends in a panic, whatever per-item error (route not found,
\* timeout, handler error, composition error) an item ends in, and when Handle
\* returns every other item has in the result exactly the one tuple its own
\* pipeline produces.
C9_ItemErrorsDoNotAbort ==
    (AllWellFormed /\ UniqueIds) =>
        /\ ret.error.nil
        /\ panic = "none"
        /\ Returned =>
            \A i, j \in Items :
                (i # j /\ EndedInError(j)) => TuplesOf(i) \in OwnTuples(i)

\* the same without the timer: the result holds for every item the tuples
\* its own reducer sent, and an item on a route without timeout has the tuple
\* of its own pipeline
C9_UntimedItemsKeepTheirTuple ==
    (AllWellFormed /\ UniqueIds) =>
        /\ ret.error.nil
        /\ Returned =>
            \A i \in Items :
                /\ TuplesOf(i) = emitted[i]
                /\ routeTimeout(routes, requests[i][2].s) = 0 => InResults(OwnTuple(i))

\* an item timed out and the send of its timeout tuple ended the process
\* before the other item got a tuple
C9_PanicAfterTimeout ==
    /\ AllWellFormed /\ UniqueIds /\ Len(requests) = 2
    /\ timedOut[1] /\ panic = "send on closed channel"
    /\ ~Started(2)

\* Handle returned, an item ended in an error and the other item, on a route
\* with a timeout, has no tuple in the result
C9_ItemWithoutTuple ==
    /\ AllWellFormed /\ UniqueIds /\ Returned
    /\ \E i, j \in Items : i # j /\ EndedInError(j) /\ TuplesOf(i) = <<>>

\* Handle returned a batch whose first item timed out and whose second item
\* got the result of its controller
C9_TimeoutBesideResult ==
    /\ Returned /\ ret.error.nil
    /\ ret.results = <<timeoutTuple(<<"a">>, rSlow), Tuple(<<"b">>, rOk, Map(1), NilError)>>

\* C10: a well-formed item whose route is not registered gets exactly the
\* tuple [id, route, nil, {"message": "Not Found", "statusCode": 404}], and a
\* batch of well-formed items with unique ids returns it with a nil error.
C10_NotFound ==
    \A i \in Items :
        (WellFormed(requests[i]) /\ requests[i][2].s \notin DOMAIN routes) =>
            LET notFound == Tuple(requests[i][1].s, requests[i][2].s, Nil,
                                  ErrorMap("Not Found", 404))
            IN /\ chanClosed[i] => emitted[i] = <<notFound>>
               /\ (Returned /\ AllWellFormed /\ UniqueIds) =>
                      /\ ret.error.nil
                      /\ TuplesOf(i) = <<notFound>>

C10_Witness ==
    /\ Returned /\ ret.error.nil
    /\ \E i \in Items : /\ requests[i][2].s = rMissing
                        /\ TuplesOf(i) = <<Tuple(requests[i][1].s, rMissing, Nil,
                                                 ErrorMap("Not Found", 404))>>

\* C11: an item whose controller fails with NewBlestError(message, status) or
\* NewBlestError(message, status, code) gets one tuple with that message and
\* statusCode = status, and with the code when one was given; for
\* NewBlestError(message) alone and for a plain error the statusCode is 500.
C11_BlestErrorShape ==
    \A i \in Items :
        (Over(i) /\ ItemRoute(i) \in {rErr0, rErr1, rErrC, rFail}) =>
            /\ Len(emitted[i]) = 1
            /\ emitted[i][1].id = ItemId(i) /\ emitted[i][1].route = ItemRoute(i)
            /\ emitted[i][1].result = Nil
            /\ ~emitted[i][1].error.nil
            /\ emitted[i][1].error.message =
                   (IF ItemRoute(i) = rFail THEN "ERROR_5" ELSE "Forbidden")
            /\ emitted[i][1].error.statusCode =
                   (IF ItemRoute(i) \in {rErr1, rErrC} THEN 403 ELSE 500)
            /\ ItemRoute(i) = rErrC =>
                   /\ "code" \in DOMAIN emitted[i][1].error
                   /\ emitted[i][1].error.code = "FORBIDDEN"

\* C12: an item whose pipeline ends with a non-nil result that is not a map
\* gets exactly one tuple, the "should be a JSON object" error with statusCode
\* 500, and no tuple ever carries a result that is not a map.
C12_NonObjectResult ==
    /\ \A i \in Items :
        (Over(i) /\ ItemRoute(i) = rStr) =>
            emitted[i] = <<Tuple(ItemId(i), rStr, Nil,
                                 ErrorMap("The result, if any, should be a JSON object", 500))>>
    /\ \A j \in 1..Len(results) : results[j].result.t \in {"nil", "map"}

\* C13: in every tuple that Handle returns, result and error are not both
\* non-nil, a non-nil result is a map, and a non-nil error has a message and an
\* integer statusCode.
C13_TupleShape ==
    Returned =>
        \A j \in 1..Len(ret.results) :
            LET tuple == ret.results[j]
            IN /\ DOMAIN tuple = {"id", "route", "result", "error"}
               /\ ~(tuple.result # Nil /\ ~tuple.error.nil)
               /\ tuple.result # Nil => tuple.result.t = "map"
               /\ ~tuple.error.nil => /\ tuple.error.message # ""
                                      /\ tuple.error.statusCode \in Int

\* the pipeline of item i and, of the steps that were invoked for it, the
\* positions in ran[i] of those that returned an error and of the afterware
Pipeline(i) == routeHandler(routes, ItemRoute(i))
InvokedStep(i, q) ==
    LET p == Pipeline(i) IN p[CHOOSE j \in 1..Len(p) : p[j].name = ran[i][q]]
FailedAt(i) == {q \in 1..Len(ran[i]) : InvokedStep(i, q).err # NoErr}
AfterwareAt(i) == {q \in 1..Len(ran[i]) : InvokedStep(i, q).argc = 3}
\* the afterware steps that follow the first failing step in the pipeline
AfterwareBehindFailure(i) ==
    LET p == Pipeline(i)
        failing == {j \in 1..Len(p) : p[j].err # NoErr}
    IN {j \in 1..Len(p) : p[j].argc = 3 /\ \E f \in failing : f < j}

\* the error that invoking step q of ran[i] sets: the error the step returned,
\* the error of a function of no supported type, or the composition error of
\* a second non-nil result
ErrSetBy(i, q) ==
    LET f == InvokedStep(i, q)
    IN IF f.err # NoErr THEN f.err
       ELSE IF f.ret # Nil /\ \E q0 \in 1..(q - 1) : /\ InvokedStep(i, q0).ret # Nil
                                                     /\ InvokedStep(i, q0).err = NoErr
       THEN PlainErr("Middleware should not return anything but may mutate context")
       ELSE IF f.sig = "unsupported"
       THEN PlainErr("Unsupported route handler function definition")
       ELSE NoErr
\* the positions in ran[i] of the steps that set an error
ErrSetAt(i) == {q \in 1..Len(ran[i]) : ErrSetBy(i, q) # NoErr}
\* the afterware steps that follow the first step of the pipeline that sets an
\* error when the steps in front of it are invoked
AfterwareBehindError(i) ==
    LET p == Pipeline(i)
        setting == {j \in 1..Len(p) :
                       \/ p[j].err # NoErr
                       \/ p[j].sig = "unsupported"
                       \/ p[j].ret # Nil /\ \E a \in 1..(j - 1) : p[a].ret # Nil}
    IN {j \in 1..Len(p) : p[j].argc = 3 /\ \E f \in setting : f < j}

\* C14: in the run of an item's pipeline, once a step has set an error (the
\* error it returned or the composition error of a second non-nil result)
\* only afterware steps are invoked, each with that error; an afterware is
\* invoked only after a step has set an error; and when the run is over the
\* afterware behind that step ran exactly once each if an error was set, and
\* none ran otherwise, a timeout included.
C14_AfterwareOnlyOnError ==
    \A i \in Items :
        Started(i) =>
            /\ \A q1 \in ErrSetAt(i), q2 \in 1..Len(ran[i]) : q1 < q2 => q2 \in AfterwareAt(i)
            /\ \A q \in AfterwareAt(i) : \E q1 \in ErrSetAt(i) : q1 < q
            /\ Len(seen[i]) = Cardinality(AfterwareAt(i))
            /\ \A j \in 1..Len(seen[i]) :
                   \E q1 \in ErrSetAt(i) : seen[i][j] = ErrSetBy(i, q1)
            /\ Over(i) =>
                   Cardinality(AfterwareAt(i)) =
                       (IF ErrSetAt(i) = {} THEN 0
                        ELSE Cardinality(AfterwareBehindError(i)))

\* the same for the errors that steps return: after a step returned an error
\* only afterware steps are invoked, each with that error, an afterware is
\* invoked only after a step returned an error, and when the run is over the
\* afterware behind the failing step ran exactly once each if a step returned
\* an error, and none ran otherwise, a timeout included
C14_AfterwareOnReturnedError ==
    \A i \in Items :
        Started(i) =>
            /\ \A q1 \in FailedAt(i), q2 \in 1..Len(ran[i]) : q1 < q2 => q2 \in AfterwareAt(i)
            /\ \A q \in AfterwareAt(i) : \E q1 \in FailedAt(i) : q1 < q
            /\ Len(seen[i]) = Cardinality(AfterwareAt(i))
            /\ \A j \in 1..Len(seen[i]) :
                   \E q1 \in FailedAt(i) : seen[i][j] = InvokedStep(i, q1).err
            /\ Over(i) =>
                   Cardinality(AfterwareAt(i)) =
                       (IF FailedAt(i) = {} THEN 0
                        ELSE Cardinality(AfterwareBehindFailure(i)))

\* one item's controller returned an error, the controller behind it was
\* skipped and the afterware ran with the error; another item timed out before
\* its controller and its afterware was skipped
C14_ReturnedErrorReached ==
    \E i, j \in Items :
        /\ Over(i) /\ ItemRoute(i) = rFail
        /\ ran[i] = <<"ctrlErr", "afterware">> /\ seen[i] = <<PlainErr("ERROR_5")>>
        /\ Over(j) /\ ItemRoute(j) = rSlow /\ timedOut[j]
        /\ ran[j] = <<"mwTop">> /\ seen[j] = <<>>

\* two of the steps invoked for item i returned a non-nil value
TwoValues(i) ==
    Cardinality({q \in 1..Len(ran[i]) : InvokedStep(i, q).ret # Nil}) >= 2

CompositionError(i) ==
    Tuple(ItemId(i), ItemRoute(i), Nil,
          ErrorMap("Middleware should not return anything but may mutate context", 500))

\* C15: an item for which two steps returned a non-nil value gets exactly the
\* tuple with a nil result and the "Middleware should not return anything but
\* may mutate context" error with statusCode 500, and Handle returns it.
C15_SecondResultFails ==
    \A i \in Items :
        (Over(i) /\ TwoValues(i)) =>
            /\ emitted[i] = <<CompositionError(i)>>
            /\ (Returned /\ AllWellFormed /\ UniqueIds) =>
                   TuplesOf(i) = <<CompositionError(i)>>

C15_Witness ==
    /\ Returned /\ ret.error.nil
    /\ \E i \in Items : /\ Over(i) /\ ran[i] = <<"ctrlObj", "ctrlObj">>
                        /\ TuplesOf(i) = <<CompositionError(i)>>

\* C16: the context of every started item holds every key of the ambient
\* context and the keys id, route, headers and time; id, route and headers
\* are the item's own (headers is an empty map when the item has no headers map), also
\* where the ambient context has a key of the same name.
C16_ContextEntries ==
    \A i \in Items :
        Started(i) =>
            LET fields == heap[ctxAddr[i].n].fields
            IN /\ DOMAIN heap[AmbientContext.n].fields \subseteq DOMAIN fields
               /\ {"id", "route", "headers", "time"} \subseteq DOMAIN fields
               /\ fields["id"] = requests[i][1]
               /\ fields["route"] = requests[i][2]
               /\ View(heap, fields["headers"]) = HeadersView(i)

\* the steps of an item with a headers map ran on a context whose id differs
\* from the ambient context's id entry
C16_Witness ==
    \E i \in Items :
        /\ Started(i) /\ ran[i] # <<>> /\ Len(requests[i]) = 4
        /\ heap[ctxAddr[i].n].fields["headers"] = Map(3)
        /\ heap[ctxAddr[i].n].fields["id"] = idB
        /\ heap[AmbientContext.n].fields["id"] = Str(<<"z">>)
        /\ heap[ctxAddr[i].n].fields["k"] = Str(<<"w">>)

\* the item carries a selector: a slice as its fourth element
CarriesSelector(request) == Len(request) > 3 /\ request[4].t = "slice"

\* the object that the pipeline of item i returns: the result of its first
\* controller that returns a map
ObjectResult(i) ==
    SelectSeq(Pipeline(i), LAMBDA f : f.sig = "controller" /\ f.ret.t = "map")[1].ret

\* C26: when an item carries a selector and its pipeline's result is an
\* object, the result of the tuple sent for it is filterObject(result,
\* selector); without a selector the result is sent unchanged.
C26_SelectorApplied ==
    \A i \in Items :
        \A j \in 1..Len(emitted[i]) :
            emitted[i][j].result.t = "map" =>
                MapContents(emitted[i][j].result.n) =
                    IF CarriesSelector(requests[i])
                    THEN filterObject(MapContents(ObjectResult(i).n),
                                      SliceContents(requests[i][4].n)).obj
                    ELSE MapContents(ObjectResult(i).n)

\* the same for the items without a selector
C26_UnchangedWithoutSelector ==
    \A i \in Items :
        \A j \in 1..Len(emitted[i]) :
            (emitted[i][j].result.t = "map" /\ ~CarriesSelector(requests[i])) =>
                emitted[i][j].result = ObjectResult(i)

(***************************************************************************)
(* Properties of the registration calls                                    *)
(***************************************************************************)
\* the router the last call acted on, as it is now
Now == Target(last.on)

\* the last call was a Merge or a Namespace that returned no error
Imported == last.op \in {"Merge", "Namespace"} /\ last.err = ""

\* the name under which the last call stores the route name of child
ImportedName(name) ==
    IF last.op = "Namespace" THEN last.route \o <<"/">> \o name ELSE name

\* C17: a Route call that returns stores the router's middleware at that
\* moment followed by the handlers, and no call (Use, Route, Describe, Merge,
\* Namespace) changes the pipeline of a route that was registered before it.
C17_PipelineFixed ==
    /\ (last.op = "Route" /\ last.panic = "") =>
           /\ last.route \in DOMAIN Now.Routes
           /\ Now.Routes[last.route].Handler = last.pre.Middleware \o last.handlers
    /\ \A name \in DOMAIN last.pre.Routes :
           /\ name \in DOMAIN Now.Routes
           /\ Now.Routes[name].Handler = last.pre.Routes[name].Handler

\* C18: after a Merge or Namespace that returned no error, every route of
\* child is in parent with the pipeline parent's middleware, then the child
\* route's pipeline, then parent's afterware, and with the child route's
\* description, schema, visible and validate.
C18_ImportedPipeline ==
    Imported =>
        \A name \in DOMAIN child.Routes :
            /\ ImportedName(name) \in DOMAIN parent.Routes
            /\ LET imported == parent.Routes[ImportedName(name)]
                   own == child.Routes[name]
               IN /\ imported.Handler =
                         last.pre.Middleware \o own.Handler \o last.pre.Afterware
                  /\ imported.Description = own.Description
                  /\ imported.Schema = own.Schema
                  /\ imported.Visible = own.Visible
                  /\ imported.Validate = own.Validate

\* parent, with a middleware and an afterware of its own, merged a described
\* route whose pipeline starts with a middleware of the route
C18_Witness ==
    /\ Imported /\ last.op = "Merge"
    /\ rSlow \in DOMAIN parent.Routes
    /\ parent.Routes[rSlow].Handler = <<mwTop, mwNested, ctrlObj, afterware>>
    /\ parent.Routes[rSlow].Description = <<"d">>
    /\ parent.Routes[rSlow].Visible

\* C19: after a Merge or Namespace that returned no error, an imported route
\* has the child route's timeout when that is positive and parent's default
\* timeout otherwise.
C19_ImportedTimeout ==
    Imported =>
        \A name \in DOMAIN child.Routes :
            /\ ImportedName(name) \in DOMAIN parent.Routes
            /\ parent.Routes[ImportedName(name)].Timeout =
                   (IF child.Routes[name].Timeout > 0 THEN child.Routes[name].Timeout
                    ELSE last.pre.Timeout)

\* a route with timeout 10 was merged into a parent whose default is 1000
C19_Witness ==
    /\ Imported /\ last.op = "Merge"
    /\ parent.Timeout = 1000
    /\ rOk \in DOMAIN parent.Routes /\ rOk \in DOMAIN child.Routes
    /\ child.Routes[rOk].Timeout = 10
    /\ parent.Routes[rOk].Timeout = 10

\* C20: a Merge called while a route name of child is registered in parent
\* returns an error and leaves parent's route table as it was.
C20_MergeAllOrNothing ==
    (last.op = "Merge" /\ DOMAIN child.Routes \cap DOMAIN last.pre.Routes # {}) =>
        /\ last.err # ""
        /\ parent.Routes = last.pre.Routes


\* C21: a Namespace call with a valid prefix on a child that has routes
\* returns an error exactly when a prefixed name is already registered in
\* parent, otherwise stores every child route under prefix + "/" + name, and
\* in either case leaves every entry parent had before as it was.
C21_NamespacePrefixed ==
    (last.op = "Namespace" /\ validateRoute(last.route, FALSE) = ""
                           /\ DOMAIN child.Routes # {}) =>
        LET taken == {name \in DOMAIN child.Routes :
                          ImportedName(name) \in DOMAIN last.pre.Routes}
        IN /\ last.err # "" <=> taken # {}
           /\ last.err = "" =>
                  \A name \in DOMAIN child.Routes : ImportedName(name) \in DOMAIN parent.Routes
           /\ \A name \in DOMAIN last.pre.Routes :
                  /\ name \in DOMAIN parent.Routes
                  /\ parent.Routes[name] = last.pre.Routes[name]


(***************************************************************************)
(* Properties of validateRoute                                             *)
(***************************************************************************)
\* the slash-separated segments of a name, as pairs of first and last position
SegmentBounds(name) ==
    LET cuts == {0, Len(name) + 1} \cup {i \in 1..Len(name) : name[i] = "/"}
    IN {<<a + 1, b - 1>> : <<a, b>> \in
            {c \in cuts \X cuts : c[1] < c[2] /\ \A x \in cuts : ~(c[1] < x /\ x < c[2])}}

\* the grammar of regular route names
RegularGrammar(name) ==
    /\ Len(name) >= 2
    /\ name[1] \in Letters
    /\ name[Len(name)] \in Letters \cup Digits
    /\ \A i \in 1..Len(name) : name[i] \in Letters \cup Digits \cup {"_", "-", "/"}
    /\ \A seg \in SegmentBounds(name) :
           /\ seg[2] - seg[1] + 1 >= 2
           /\ name[seg[1]] \in Letters
           /\ name[seg[2]] \in Letters \cup Digits

\* C22: for a regular (non-system) name validateRoute returns "" exactly when
\* the name starts with a letter, ends with a letter or digit, has length >= 2,
\* holds only letters, digits, '_', '-' and '/', and every slash-separated
\* segment has length >= 2, starts with a letter and ends with a letter or
\* digit.
C22_RegularGrammar ==
    (fnRes.called /\ ~fnArg.system) =>
        (fnRes.val = "" <=> RegularGrammar(fnArg.route))

\* a name that passes the regular expression and is rejected for a segment
C22_Witness ==
    /\ fnRes.called /\ ~fnArg.system
    /\ fnArg.route = <<"a", "_", "/", "a", "0">>
    /\ fnRes.val = "Sub-routes should end with a letter or a number"


(***************************************************************************)
(* Properties of single Route and Describe calls                           *)
(***************************************************************************)
\* C23: a Route call whose name fails the route grammar (every name of the
\* test's list does), whose name is already registered, or that is given no
\* handler function panics and leaves the route table as it was.
C23_RoutePanics ==
    /\ \A name \in InvalidTestNames : ~RegularGrammar(name)
    /\ (last.op = "Route" /\ (\/ ~RegularGrammar(last.route)
                              \/ last.route \in DOMAIN last.pre.Routes
                              \/ last.handlers = <<>>)) =>
           /\ last.panic # ""
           /\ Now.Routes = last.pre.Routes

\* Route was called with a handler and a name of three segments whose middle
\* segment is too short, on a router that has routes
C23_Witness ==
    /\ last.op = "Route" /\ last.handlers = <<ctrlObj>>
    /\ last.route = <<"a", "b", "c", "/", "a", "/", "a", "b", "c">>
    /\ last.panic = "Sub-routes should be at least two characters long"
    /\ DOMAIN Now.Routes = {rOk, rSlow}

\* the timeout of a config is a positive integer
PositiveInteger(timeout) == timeout.t \in {"num", "int"} /\ timeout.n > 0

\* C24: a Describe call on a registered route with a config that carries a
\* timeout returns no error and sets the route's timeout when the timeout is a
\* positive integer, and otherwise returns an error and leaves the route's
\* entry as it was.
C24_DescribeTimeout ==
    (last.op = "Describe" /\ last.route \in DOMAIN last.pre.Routes
                          /\ last.options.timeout # Nil) =>
        IF PositiveInteger(last.options.timeout)
        THEN /\ last.err = ""
             /\ Now.Routes[last.route].Timeout = last.options.timeout.n
        ELSE /\ last.err # ""
             /\ Now.Routes[last.route] = last.pre.Routes[last.route]

\* C25: a Route call whose options carry a timeout that is not a positive
\* integer does not return normally and registers no route.
C25_RouteBadTimeoutFatal ==
    (last.op = "Route" /\ last.options.timeout # Nil
                       /\ ~PositiveInteger(last.options.timeout)) =>
        /\ last.panic # ""
        /\ Now.Routes = last.pre.Routes


(***************************************************************************)
(* Properties of filterObject (FilterSpec)                                 *)
(***************************************************************************)
\* the elements of every slice of the object are maps
SlicesOfMaps(obj) ==
    \A name \in DOMAIN obj :
        obj[name].kind = "list" =>
            \A i \in 1..Len(obj[name].elems) : obj[name].elems[i].kind = "map"

\* C27: filterObject is idempotent: for every object x and every selector s
\* built from key strings and [key, sub-selector] pairs, filterObject returns
\* a projection whose keys are keys of x and that filterObject with the same
\* selector maps to itself.
C27_FilterIdempotent ==
    fnRes.called =>
        /\ fnRes.val.panic = ""
        /\ filterObject(fnRes.val.obj, fnArg.arr) = fnRes.val
        /\ DOMAIN fnRes.val.obj \subseteq DOMAIN fnArg.obj

\* the same for the objects whose slices hold maps only
C27_IdempotentOnSlicesOfMaps ==
    (fnRes.called /\ SlicesOfMaps(fnArg.obj)) =>
        /\ fnRes.val.panic = ""
        /\ filterObject(fnRes.val.obj, fnArg.arr) = fnRes.val
        /\ DOMAIN fnRes.val.obj \subseteq DOMAIN fnArg.obj


(***************************************************************************)
(* Properties of the client (BatchSpec, StaggerSpec)                       *)
(***************************************************************************)
\* the number of times the call tuple of caller c was sent
SentCount(c) ==
    Cardinality({at \in {<<p, j>> : p \in 1..Len(posts), j \in 1..MaxCallers + MaxFlushes} :
                    at[2] <= Len(posts[at[1]]) /\ posts[at[1]][at[2]].id = c})

\* the call tuple of caller c waits in the queue or in the newQueue of a run
\* of Process that has not sent it yet
Held(c) ==
    \/ \E j \in 1..Len(client.Queue) : client.Queue[j].id = c
    \/ \E p \in 1..Len(flushes) :
          /\ flushes[p].pc \in {"drop", "write", "stop", "rearm", "clear", "reset", "post"}
          /\ \E j \in 1..Len(flushes[p].newQueue) : flushes[p].newQueue[j].id = c

\* what Request returns to caller c for the server's tuple of its own id
OwnReply(c) == requestOutcome(EmitArgs(ServerReply(CallTuple(c))))

TimedOut(c) == callers[c].out = RequestReturned(Nil, "Request timed out")

\* a run of Process has called emit for the id of caller c
Dispatched(c) ==
    \E p \in 1..Len(flushes) :
        \E j \in 1..Len(flushes[p].data) : j < flushes[p].next /\ flushes[p].data[j].id = c

\* C28: for the calls of one batch (k calls enqueued before the flush timer
\* fires, k <= MaxBatchSize) there is one POST at most, its body holds the
\* call tuples of exactly those k calls, a caller that receives a value
\* returns the result or the error of the response's tuple for its own id,
\* whatever the order of the response, and no caller is left to its deadline
\* once the tuple for its id was dispatched.
C28_OneBatchRoundTrip ==
    /\ [](/\ Len(posts) <= 1
          /\ \A p \in 1..Len(posts) :
                /\ Len(posts[p]) = Cardinality({c \in Callers : Enqueued(c)})
                /\ \A c \in Callers : Enqueued(c) => SentCount(c) = 1
          /\ \A c \in Callers :
                (Validated(c) /\ callers[c].pc = "done" /\ ~TimedOut(c)) =>
                    callers[c].out = OwnReply(c))
    /\ [][\A c \in Callers :
             (callers[c].pc = "select" /\ callers'[c].pc = "done") =>
                 (Dispatched(c) => callers'[c].out = OwnReply(c))]_vars

\* C29: under every interleaving of Request calls and runs of Process, a call
\* tuple that was enqueued is either waiting to be sent or was sent in one
\* POST: it is never lost unsent and never sent twice.
C29_SentExactlyOnce ==
    \A c \in Callers :
        Enqueued(c) => SentCount(c) + (IF Held(c) THEN 1 ELSE 0) = 1

\* C30: a Request call that passed the validation returns the reply for its
\* own id or the error "Request timed out"; its deadline passes only if no
\* reply for its id was dispatched before; and what a caller returned is not
\* changed by anything that arrives later.
C30_ReplyOrTimeout ==
    /\ [](\A c \in Callers :
             (Validated(c) /\ callers[c].pc = "done") =>
                 (callers[c].out = OwnReply(c) \/ TimedOut(c)))
    /\ [][\A c \in Callers :
             /\ (callers[c].pc = "select" /\ callers'[c].pc = "done" /\ TimedOut(c)')
                    => ~Dispatched(c)
             /\ callers[c].pc = "done" => callers'[c] = callers[c]]_vars


(***************************************************************************)
(* Properties of a single Request call (CallSpec)                          *)
(***************************************************************************)
\* a body or headers argument that is present and is no map
BadArgument(args) == \E i \in 1..min(Len(args), 2) : args[i].t \notin {"map", "nil"}

\* the call of caller c was refused: it returned an error, and no channel was
\* made, no listener registered, no tuple enqueued and no timer armed for it
Refused(c) ==
    /\ callers[c].pc = "done"
    /\ callers[c].out.state = "returned"
    /\ callers[c].out.err # "" /\ callers[c].out.result = Nil
    /\ chOnce[c] = NoChan
    /\ c \notin client.events
    /\ client.Queue = <<>>
    /\ timers = <<>>

\* C31: Request with an empty route, or with a body or headers argument that
\* is present but not a map, returns an error without generating an id,
\* registering a listener, enqueueing a tuple or arming the flush timer.
C31_InvalidCallRefused ==
    (callers[1].pc # "idle" /\ (callers[1].route = <<>> \/ BadArgument(callers[1].args))) =>
        Refused(1)

\* the same for the empty route alone
C31_EmptyRouteRefused ==
    (callers[1].pc # "idle" /\ callers[1].route = <<>>) => Refused(1)


\* the call of caller c is served: it does not panic, its tuple [id, route,
\* body, headers] with the body it was called with is enqueued and sent once,
\* and it returns the reply for its id or the timeout error
Served(c) ==
    /\ callers[c].out.state # "panicked"
    /\ Validated(c)
    /\ CallTuple(c).body = (IF callers[c].args = <<>> THEN Nil ELSE callers[c].args[1])
    /\ Enqueued(c) => SentCount(c) + (IF Held(c) THEN 1 ELSE 0) = 1
    /\ callers[c].pc = "done" => (callers[c].out = OwnReply(c) \/ TimedOut(c))

\* C32: body and headers are optional: Request(route) and Request(route,
\* body) are valid calls that enqueue the tuple [id, route, body, headers]
\* and resolve like any other call, without crashing.
C32_OptionalArguments ==
    (/\ callers[1].pc # "idle"
     /\ callers[1].route # <<>>
     /\ Len(callers[1].args) <= 1
     /\ ~BadArgument(callers[1].args)) => Served(1)

\* the same for Request(route) alone
C32_NoArguments ==
    (callers[1].pc # "idle" /\ callers[1].route # <<>> /\ callers[1].args = <<>>) => Served(1)


(***************************************************************************)
(* Properties of the HTTP handler (ServerSpec)                             *)
(***************************************************************************)
\* C33: when the request handler returns a batch-level error, the HTTP
\* handler answers with the status of error.code (500 when the code is
\* absent) and with a body equal to error.message.
C33_BatchErrorResponse ==
    (/\ fnRes.called
     /\ ~fnArg.reqErr.nil
     /\ "message" \in DOMAIN fnArg.reqErr.fields
     /\ Lookup(fnArg.reqErr.fields, "code").t \in {"int", "nil"}) =>
        /\ fnRes.val.status = (IF "code" \in DOMAIN fnArg.reqErr.fields
                               THEN fnArg.reqErr.fields["code"].n ELSE 500)
        /\ fnRes.val.body = fnArg.reqErr.fields["message"]

\* the same for the status alone
C33_StatusFromCode ==
    (/\ fnRes.called
     /\ ~fnArg.reqErr.nil
     /\ Lookup(fnArg.reqErr.fields, "code").t \in {"int", "nil"}) =>
        fnRes.val.status = (IF "code" \in DOMAIN fnArg.reqErr.fields
                            THEN fnArg.reqErr.fields["code"].n ELSE 500)



(***************************************************************************)
(* Properties of validateRoute on system names                             *)
(***************************************************************************)
\* the grammar of system route names
SystemGrammar(name) ==
    /\ Len(name) >= 3
    /\ name[1] = "_"
    /\ name[2] \in Letters
    /\ name[Len(name)] \in Letters \cup Digits
    /\ \A i \in 1..Len(name) : name[i] \in Letters \cup Digits \cup {"_", "-", "/"}
    /\ \A seg \in SegmentBounds(name) :
           seg[1] > 1 =>
               /\ seg[2] - seg[1] + 1 >= 2
               /\ name[seg[1]] \in Letters
               /\ name[seg[2]] \in Letters \cup Digits

\* C34: for a system name validateRoute returns "" exactly when the name
\* starts with '_' followed by a letter, has length >= 3, ends with a letter
\* or digit, holds only the allowed characters and every segment after the
\* first has length >= 2, starts with a letter and ends with a letter or
\* digit; names of several segments are among the accepted ones.
C34_SystemGrammar ==
    (fnRes.called /\ fnArg.system) =>
        (fnRes.val = "" <=> SystemGrammar(fnArg.route))

\* the same for the system names of one segment
C34_SingleSegmentSystemGrammar ==
    (fnRes.called /\ fnArg.system /\ \A i \in 1..Len(fnArg.route) : fnArg.route[i] # "/") =>
        (fnRes.val = "" <=> SystemGrammar(fnArg.route))

\* no system name of several segments is accepted
C34_NoSegmentedSystemName ==
    (fnRes.called /\ fnArg.system /\ \E i \in 1..Len(fnArg.route) : fnArg.route[i] = "/") =>
        fnRes.val # ""



(***************************************************************************)
(* Properties of the pipeline after a composition error                    *)
(***************************************************************************)
\* the error set when a second step returns a non-nil value
CompositionErr == PlainErr("Middleware should not return anything but may mutate context")

\* the afterware steps of item i's pipeline that stand behind two steps
\* returning a non-nil value
AfterwareBehindSecondValue(i) ==
    LET p == Pipeline(i)
    IN {j \in 1..Len(p) :
            /\ p[j].argc = 3
            /\ \E a, b \in 1..Len(p) : a < b /\ b < j /\ p[a].ret # Nil /\ p[b].ret # Nil}

\* C35: when the run of an item's pipeline is over and the error is the
\* composition error of a second non-nil result, every afterware step behind
\* the offending step was invoked with that error.
C35_AfterwareAfterCompositionError ==
    \A i \in Items :
        (Over(i) /\ TwoValues(i) /\ ~timedOut[i]) =>
            \A j \in AfterwareBehindSecondValue(i) :
                \E q \in 1..Len(ran[i]) :
                    /\ ran[i][q] = Pipeline(i)[j].name
                    /\ CompositionErr \in {seen[i][x] : x \in 1..Len(seen[i])}

\* after the composition error no further step is invoked at all
C35_LoopEndsAtCompositionError ==
    \A i \in Items :
        (Started(i) /\ TwoValues(i)) =>
            /\ AfterwareAt(i) = {}
            /\ seen[i] = <<>>
            /\ InvokedStep(i, Len(ran[i])).ret # Nil



(***************************************************************************)
(* Properties of rejected batches                                          *)
(***************************************************************************)
\* C36: when Handle returns a batch-shape error, no pipeline step of any item
\* of the batch has been invoked.
C36_RejectedBatchHasNoEffects ==
    (Returned /\ BatchRejected) => \A i \in Items : ran[i] = <<>>

\* the same for the batches rejected at their first item
C36_RejectedAtFirstItem ==
    (Returned /\ BatchRejected /\ \A i \in Items : ~Started(i)) =>
        \A i \in Items : ran[i] = <<>>

\* a rejected batch whose items in front of the offending one ran to their end
C36_ItemsInFrontRan ==
    (Returned /\ BatchRejected) =>
        \A i \in Items : Started(i) => Over(i)



(***************************************************************************)
(* Properties of the flush timer (StaggerSpec)                             *)
(***************************************************************************)
\* a timer of the client is pending
TimerArmed == \E t \in 1..Len(timers) : timers[t] = "armed"

\* a run of Process has not yet passed its re-arming of the timer
FlushBeforeRearm ==
    \E p \in 1..Len(flushes) :
        flushes[p].pc \in {"take", "takeLen", "takeOperand", "drop", "write", "stop", "rearm",
                            "reset"}

\* a call of Request has appended its tuple and not yet passed its arming of
\* the timer
CallerBeforeArm == \E c \in Callers : callers[c].pc \in {"tcheck", "tset"}

\* C37: while the client runs and its queue is non-empty, a flush timer is
\* armed, or a run of Process or a call of Request is about to arm it: no
\* tuple waits in the queue for a further call of Request.
C37_TimerCoversQueue ==
    (Running /\ client.Queue # <<>>) =>
        (TimerArmed \/ FlushBeforeRearm \/ CallerBeforeArm)



(***************************************************************************)
(* Properties of the flush (FlushSpec)                                     *)
(***************************************************************************)
\* run p of Process executes c.Queue = c.Queue[len(newQueue):]
Removes(p) == flushes[p].pc = "write" /\ flushes'[p].pc = "stop"

\* run p of Process executes its branch on len(c.Queue) == 0
Rearms(p) == flushes[p].pc \in {"clear", "reset"} /\ flushes'[p].pc = "post"

\* the call tuples of all POSTs so far, in the order they were sent
RECURSIVE Flatten(_)
Flatten(seqs) == IF seqs = <<>> THEN <<>> ELSE Head(seqs) \o Flatten(Tail(seqs))

\* the removal of run p takes its newQueue, and nothing else, from the head of
\* the queue
C38_RemovalStep ==
    \A p \in 1..Len(flushes) :
        Removes(p) =>
            LET newQueue == flushes[p].newQueue
            IN /\ fatal' = ""
               /\ Len(newQueue) <= Len(client.Queue)
               /\ newQueue = SubSeq(client.Queue, 1, Len(newQueue))
               /\ client'.Queue = SubSeq(client.Queue, Len(newQueue) + 1, Len(client.Queue))

\* after the branch of run p a timer is armed exactly if the queue is non-empty
C38_RearmStep ==
    \A p \in 1..Len(flushes) :
        Rearms(p) =>
            /\ fatal' = ""
            /\ (\E t \in 1..Len(timers') : timers'[t] = "armed") <=> client'.Queue # <<>>

\* C38: each run of Process takes the first min(len(queue), MaxBatchSize)
\* tuples of the queue, removes exactly those from its head and POSTs them as
\* one array of at most MaxBatchSize tuples, no tuple is sent twice, and after
\* the removal a timer is armed if and only if the queue is non-empty.
C38_FlushTakesHead ==
    /\ [](\A j \in 1..Len(posts) : Len(posts[j]) <= client.MaxBatchSize)
    /\ [](\A a, b \in 1..Len(Flatten(posts)) :
              a # b => Flatten(posts)[a].id # Flatten(posts)[b].id)
    /\ [][C38_RemovalStep /\ C38_RearmStep]_vars

\* the bound on the size of a POST alone
C38_PostWithinMaxBatchSize ==
    \A j \in 1..Len(posts) : Len(posts[j]) <= client.MaxBatchSize

\* a queue of two tuples is sent as two POSTs of one tuple
C38_SplitReached ==
    /\ client.MaxBatchSize = 1
    /\ Len(posts) = 2 /\ Len(posts[1]) = 1 /\ Len(posts[2]) = 1
    /\ posts[1][1].id # posts[2][1].id



(***************************************************************************)
(* Properties of the timers and runs of Process (BatchSpec)                *)
(***************************************************************************)
PendingTimers == {t \in 1..Len(timers) : timers[t] = "armed"}
RunningFlushes == {p \in 1..Len(flushes) : flushes[p].pc # "done"}

\* C39: at every moment the client has at most one pending flush timer and
\* at most one run of Process under way.
C39_OneTimerOneFlush ==
    Running => (Cardinality(PendingTimers) <= 1 /\ Cardinality(RunningFlushes) <= 1)

\* the two halves
C39_OneTimer == Running => Cardinality(PendingTimers) <= 1
C39_OneFlush == Running => Cardinality(RunningFlushes) <= 1

\* the timers start fewer runs of Process than MaxFlushes: the guard of
\* ClientTimerFire keeps no timer from firing
RunsBelowMaxFlushes == Len(flushes) < MaxFlushes



(***************************************************************************)
(* Properties of the emitter after a call's return (CallSpec)              *)
(***************************************************************************)
\* C40: after a Request call that registered a listener has returned, by a
\* dispatched reply or by the deadline, the emitter holds no listener for the
\* call's id.
C40_NoListenerAfterReturn ==
    \A c \in Callers :
        (Validated(c) /\ callers[c].pc = "done") => c \notin client.events

\* the listener is gone once the goroutine of once has called off
C40_NoListenerAfterOff ==
    \A c \in Callers :
        chOnce[c].once \in {"close", "done"} => c \notin client.events

\* a call has returned its reply and the goroutine of once has not yet called
\* off
C40_ListenerLeftAfterReply ==
    /\ Validated(1) /\ callers[1].pc = "done" /\ callers[1].out = OwnReply(1)
    /\ chOnce[1].once = "off"
    /\ 1 \in client.events

\* a call whose POST brought no reply has timed out, no timer is pending and
\* no run of Process is under way, and its listener is still in the emitter
C40_ListenerLeftByTimeout ==
    /\ Validated(1) /\ callers[1].pc = "done" /\ TimedOut(1)
    /\ SentCount(1) = 1
    /\ PendingTimers = {} /\ RunningFlushes = {}
    /\ 1 \in client.events

====
